---- MODULE Spec2Model ----
(***************************************************************************)
(* Model of the forecast extraction engine (app/services/data_zarr) and of *)
(* the forecast routes that call it.                                       *)
(*                                                                         *)
(* Specifications                                                          *)
(*   Spec         one request through a DataService, stage by stage;       *)
(*   SpecCalls    several calls on one DataService, one after the other    *)
(*                and two at once;                                         *)
(*   SpecRegistry the registry over any set of stored variables;           *)
(*   SpecCalc     convert_units, the longitude conversions, the wind       *)
(*                direction and get_latest_zarr_path on their own;         *)
(*   SpecSwap, SpecApp  requests served by worker threads while the        *)
(*                dataset is swapped;                                      *)
(*   SpecLoads    requests served one after the other, failed loads        *)
(*                included;                                                *)
(*   SpecWarnings check_warnings runs of the warnings service              *)
(*                (app/services/warnings) made one after the other while   *)
(*                warnings are added and deleted and the hour turns;       *)
(*   SpecOverlap  check_warnings runs under way at the same time.          *)
(*                                                                         *)
(* Conventions                                                             *)
(*   - coordinates are integers in hundredths of a degree (1.25 deg = 125, *)
(*     360 deg = 36000);                                                   *)
(*   - timestamps are integers in minutes since 2021-01-01T00:00:00, the   *)
(*     first timestamp of the dataset; the native step is 60;              *)
(*   - a numeric value is an exact rational [num, den] (den > 0, reduced); *)
(*     NaN is [num |-> 0, den |-> 0]; a wind speed, which is a square root,*)
(*     is kept as [sqrt_of |-> r].                                         *)
(***************************************************************************)
EXTENDS Integers, Sequences, FiniteSets, TLC

VARIABLES
    dataset,           \* DataService.dataset: the names of its data_vars
    supported_params,  \* DataService.supported_params: name -> ParameterSpec
    params_json,       \* DataService.params_json: unit system -> name -> json
    pc,                \* position of the request being served
    request,           \* arguments of get_points_as_geojson
    point_data,        \* the xarray Dataset handed from stage to stage
    stages,            \* the stages started for the request, in order
    result,            \* what get_points_as_geojson returned or raised
    response,          \* what the route answered
    waiting,           \* a second call on the DataService, not running now
    app_state,         \* app.state: the loaded dataset and its date range
    written_by,        \* which load wrote FROM_DATE and TO_DATE (history)
    forecast_db,       \* the path the forecast table currently holds
    clock,             \* datetime.now(), in hours
    config,            \* c = get_config(): the names the settings declare
    threads,           \* the worker threads serving forecast requests
    call,              \* a function applied on its own: its name and arguments
    ret,               \* what that function returned or raised
    completed,         \* the number of calls the DataService has answered
    warnings_table,    \* the warnings table: one item per warning id
    warnings_history,  \* the warnings history table: its items
    now,               \* datetime.utcnow() of the warnings service, in hours
    checker,           \* the check_warnings runs: where each one is
    runs,              \* the number of check_warnings runs started
    outbox,            \* the messages handed to SNS and SES
    deleter,           \* the delete_all call under way
    issued             \* the number of warning ids add_warning has made

engine_vars == <<dataset, supported_params, params_json, pc, request,
                 point_data, stages, result, response, waiting>>

app_vars == <<app_state, written_by, forecast_db, clock, threads, config>>

calc_vars == <<call, ret, completed>>

warn_vars == <<warnings_table, warnings_history, now, checker, runs, outbox,
               deleter, issued>>

\* what a request through the engine leaves alone
env_vars == <<app_vars, calc_vars, warn_vars>>

vars == <<engine_vars, app_vars, calc_vars, warn_vars>>

----------------------------------------------------------------------------
(* Bounds *)

\* the longest list of query points of a request
MaxPoints == 2
\* the number of native hourly timestamps of the dataset
NativeHours == 3
\* the number of dataset versions the forecast table announces
MaxVersion == 3
\* the last hour the clock reaches
MaxClock == 1
\* the number of worker threads serving requests concurrently
NumThreads == 2
\* the number of calls one DataService answers one after the other
MaxCalls == 2
\* the largest wind component, in m/s
MaxWind == 3
\* the longest path the forecast table holds, in characters
MaxPathLen == 6
\* the number of warnings users add
NumWarnings == 2
\* the number of delete_all calls
MaxDeletes == 1
\* the number of check_warnings runs
MaxRuns == 2
\* the last hour the clock of the warnings service reaches
MaxHour == 1
\* the largest threshold and forecast value of a condition checked on its own
MaxValue == 2

----------------------------------------------------------------------------
(* Exact rational arithmetic standing for float64 *)

Abs(x) == IF x < 0 THEN -x ELSE x

RECURSIVE Gcd(_, _)
Gcd(a, b) == IF b = 0 THEN a ELSE Gcd(b, a % b)

NaN == [num |-> 0, den |-> 0]

IsNaN(v) == v = NaN

Rat(n, d) ==
    IF d = 0 THEN NaN
    ELSE LET g == Gcd(Abs(n), Abs(d))
             s == IF d < 0 THEN -1 ELSE 1
         IN  [num |-> (s * n) \div g, den |-> (s * d) \div g]

FromInt(n) == [num |-> n, den |-> 1]

RAdd(a, b) ==
    IF IsNaN(a) \/ IsNaN(b) THEN NaN
    ELSE Rat(a.num * b.den + b.num * a.den, a.den * b.den)

RSub(a, b) ==
    IF IsNaN(a) \/ IsNaN(b) THEN NaN
    ELSE Rat(a.num * b.den - b.num * a.den, a.den * b.den)

RMul(a, b) ==
    IF IsNaN(a) \/ IsNaN(b) THEN NaN
    ELSE Rat(a.num * b.num, a.den * b.den)

RDiv(a, b) ==
    IF IsNaN(a) \/ IsNaN(b) THEN NaN
    ELSE Rat(a.num * b.den, a.den * b.num)

----------------------------------------------------------------------------
(* Strings: Python compares and sorts str by code point *)

CodePoints ==
    [s \in {"10WD", "10WS", "MSL", "SP", "TCWV", "TP", "VAR_10U", "VAR_10V",
            "VAR_2T", "PACMAN", "MARIO"} |->
        CASE s = "10WD"    -> <<49, 48, 87, 68>>
          [] s = "10WS"    -> <<49, 48, 87, 83>>
          [] s = "MSL"     -> <<77, 83, 76>>
          [] s = "SP"      -> <<83, 80>>
          [] s = "TCWV"    -> <<84, 67, 87, 86>>
          [] s = "TP"      -> <<84, 80>>
          [] s = "VAR_10U" -> <<86, 65, 82, 95, 49, 48, 85>>
          [] s = "VAR_10V" -> <<86, 65, 82, 95, 49, 48, 86>>
          [] s = "VAR_2T"  -> <<86, 65, 82, 95, 50, 84>>
          [] s = "PACMAN"  -> <<80, 65, 67, 77, 65, 78>>
          [] s = "MARIO"   -> <<77, 65, 82, 73, 79>>]

RECURSIVE SeqLess(_, _)
SeqLess(a, b) ==
    IF b = <<>> THEN FALSE
    ELSE IF a = <<>> THEN TRUE
    ELSE IF Head(a) # Head(b) THEN Head(a) < Head(b)
    ELSE SeqLess(Tail(a), Tail(b))

StrLess(a, b) == SeqLess(CodePoints[a], CodePoints[b])

\* list(params); params.sort()
RECURSIVE SortedList(_)
SortedList(S) ==
    IF S = {} THEN <<>>
    ELSE LET m == CHOOSE x \in S : \A y \in S \ {x} : StrLess(x, y)
         IN  <<m>> \o SortedList(S \ {m})

\* sep.join(items)
RECURSIVE Join(_, _)
Join(sep, items) ==
    IF items = <<>> THEN ""
    ELSE IF Len(items) = 1 THEN items[1]
    ELSE items[1] \o sep \o Join(sep, Tail(items))

----------------------------------------------------------------------------
(* params.py: the parameter catalog and the registry *)

UnitSystem == {"SI", "DEFAULT"}

Frequency == {"5min", "1H"}

\* ParameterSpec.__init__; data_keys = {} and calculator = "" stand for None
ParameterSpec(short_name, long_name, data_unit, si_unit, default_unit, data_keys, interpolator, calculator) ==
    [short_name     |-> short_name,
     long_name      |-> long_name,
     data_unit      |-> data_unit,
     units          |-> [u \in UnitSystem |->
                            IF u = "SI" THEN si_unit ELSE default_unit],
     data_keys      |-> IF data_keys # {} THEN data_keys ELSE {short_name},
     interpolate_na |-> interpolator,
     calculate      |-> IF calculator # "" THEN calculator ELSE "lookup"]

INTERPOLATED_STEPS_PER_HOUR == 60 \div 5

SUPPORTED_PARAMETERS ==
    [k \in {"VAR_10U", "VAR_10V", "VAR_2T", "TCWV", "SP", "MSL", "TP",
            "10WS", "10WD"} |->
        CASE k = "VAR_10U" -> ParameterSpec("VAR_10U",
                 "10 metre U wind component", "m s**-1", "m s**-1", "m s**-1",
                 {}, "interp_linear", "")
          [] k = "VAR_10V" -> ParameterSpec("VAR_10V",
                 "10 metre V wind component", "m s**-1", "m s**-1", "m s**-1",
                 {}, "interp_linear", "")
          [] k = "VAR_2T" -> ParameterSpec("VAR_2T",
                 "2 metre temperature", "K", "K", "degC",
                 {}, "interp_linear", "")
          [] k = "TCWV" -> ParameterSpec("TCWV",
                 "total column water vapour", "kg m**-2", "kg m**-2",
                 "kg m**-2", {}, "interp_linear", "")
          [] k = "SP" -> ParameterSpec("SP",
                 "surface pressure", "Pa", "Pa", "hPa",
                 {}, "interp_linear", "")
          [] k = "MSL" -> ParameterSpec("MSL",
                 "mean sea level pressure", "Pa", "Pa", "hPa",
                 {}, "interp_linear", "")
          [] k = "TP" -> ParameterSpec("TP",
                 "total precipitation", "m", "m", "mm",
                 {}, "interp_bfill_average", "")
          [] k = "10WS" -> ParameterSpec("10WS",
                 "10 metre wind speed", "m s**-1", "m s**-1", "m s**-1",
                 {"VAR_10U", "VAR_10V"}, "interp_linear", "calc_wind_speed")
          [] k = "10WD" -> ParameterSpec("10WD",
                 "10 metre wind direction", "degree", "degree", "degree",
                 {"VAR_10U", "VAR_10V"}, "interp_linear",
                 "calc_wind_direction")]

\* a registry that exposes a parameter as soon as one of its keys is stored
keys_present_any(spec, keys) == spec.data_keys \cap keys # {}

\* ParameterSpec.keys_present
keys_present(spec, keys) == spec.data_keys \subseteq keys

\* a rendering that takes the default unit whatever the unit system
to_json_default_unit(spec, units) ==
    [short_name |-> spec.short_name,
     long_name  |-> spec.long_name,
     units      |-> spec.units["DEFAULT"]]

\* ParameterSpec.to_json
to_json(spec, units) ==
    [short_name |-> spec.short_name,
     long_name  |-> spec.long_name,
     units      |-> spec.units[units]]

\* gen_supported_params: the keys of the registry
supported_keys(available_keys) ==
    {k \in DOMAIN SUPPORTED_PARAMETERS :
        keys_present(SUPPORTED_PARAMETERS[k], available_keys)}

\* gen_supported_params
gen_supported_params(available_keys) ==
    [k \in supported_keys(available_keys) |-> SUPPORTED_PARAMETERS[k]]

----------------------------------------------------------------------------
(* The dataset: the grid of tests/conftest.py, values standing for the     *)
(* stored arrays                                                           *)

RawNames == {"VAR_10U", "VAR_10V", "VAR_2T", "TCWV", "SP", "MSL", "TP"}

GridLon == {0, 25, 50, 75, 100, 17950, 17975, 18000, 18025, 25875,
            35900, 35925, 35950, 35975}

GridLat == {25 * i : i \in -4..5}

\* the "time" coordinate: hourly, ascending
GridTime == [i \in 1..NativeHours |-> 60 * (i - 1)]

\* the stored value of a raw variable at a grid cell and native timestamp
RawValue(key, t, lon, lat) ==
    LET base == CASE key = "VAR_10U" -> 3
                  [] key = "VAR_10V" -> 4
                  [] key = "VAR_2T"  -> 290
                  [] key = "TCWV"    -> 20
                  [] key = "SP"      -> 100000
                  [] key = "MSL"     -> 101300
                  [] key = "TP"      -> 24
        h    == t \div 60
        cell == ((lon \div 25) % 11) + 13 * (((lat + 9000) \div 25) % 7)
    IN  FromInt(base + 3 * h * h + h + cell)

----------------------------------------------------------------------------
(* data_service.py: pure helpers *)

Max(a, b) == IF a >= b THEN a ELSE b

Min(a, b) == IF a <= b THEN a ELSE b

SeqRange(s) == {s[i] : i \in DOMAIN s}

IndexOf(s, x) == CHOOSE i \in DOMAIN s : s[i] = x

\* a conversion that also shifts the boundary value 0
longitude_geojson_to_zarr_inclusive(lon) ==
    IF lon <= 0 THEN lon + 36000 ELSE lon

\* longitude_geojson_to_zarr, on one element of the array
longitude_geojson_to_zarr(lon) == IF lon < 0 THEN lon + 36000 ELSE lon

\* a conversion that also wraps the boundary value 180
longitude_zarr_to_geojson_inclusive(lon) ==
    IF lon >= 18000 THEN lon - 36000 ELSE lon

\* longitude_zarr_to_geojson, on one element of the array
longitude_zarr_to_geojson(lon) == IF lon > 18000 THEN lon - 36000 ELSE lon

\* a nearest match whose tied distances go to the smaller index value
NearestTiesSmaller(grid, q) ==
    CHOOSE g \in grid : \A h \in grid \ {g} :
        \/ Abs(g - q) < Abs(h - q)
        \/ (Abs(g - q) = Abs(h - q) /\ g < h)

\* .sel(..., method="nearest") on one axis: pandas get_indexer "nearest",
\* tied distances go to the larger index value
Nearest(grid, q) ==
    CHOOSE g \in grid : \A h \in grid \ {g} :
        \/ Abs(g - q) < Abs(h - q)
        \/ (Abs(g - q) = Abs(h - q) /\ g > h)

\* a range that leaves its end out
DateRangeOpen(start, end, step) ==
    IF start >= end THEN <<>>
    ELSE [i \in 1..((end - start - 1) \div step + 1) |->
            start + (i - 1) * step]

\* pd.date_range(start, end, freq=step): empty when start > end
DateRange(start, end, step) ==
    IF start > end THEN <<>>
    ELSE [i \in 1..((end - start) \div step + 1) |-> start + (i - 1) * step]

\* Frequency.value as minutes
FreqMinutes(freq) == IF freq = "5min" THEN 5 ELSE 60

NoData == [lon |-> <<>>, lat |-> <<>>, time |-> <<>>, vars |-> <<>>]

\* the time labels _load_subset selects (lines 103-115)
SubsetTimes(date_range) ==
    LET range_start == Max(date_range[1], GridTime[1])
        range_end   == Min(date_range[2], GridTime[Len(GridTime)])
    IN  DateRange(range_start, range_end, 60)

\* .sel(time=labels) without a method: KeyError unless every label is in
\* the index
LoadSubsetRaises(date_range) ==
    ~(SeqRange(SubsetTimes(date_range)) \subseteq SeqRange(GridTime))

\* DataService._load_subset: dims of every variable are (time, z)
_load_subset(lon, lat, date_range, data_keys) ==
    LET glon  == [z \in DOMAIN lon |-> Nearest(GridLon, lon[z])]
        glat  == [z \in DOMAIN lat |-> Nearest(GridLat, lat[z])]
        times == SubsetTimes(date_range)
    IN  [lon  |-> glon,
         lat  |-> glat,
         time |-> times,
         vars |-> [k \in data_keys |->
                    [t \in DOMAIN times |->
                      [z \in DOMAIN lon |->
                        RawValue(k, times[t], glon[z], glat[z])]]]]

\* a grid axis in two-hundredths of a degree, the unit in which the point
\* midway between two grid coordinates is a whole number
Twice(grid) == {2 * g : g \in grid}

\* a selection that measures longitude around the circle
sel_nearest_wrapping(lon2, lat2) ==
    [lon |-> (CHOOSE g \in Twice(GridLon) : \A h \in Twice(GridLon) \ {g} :
                LET dg == Min(Abs(g - lon2), 72000 - Abs(g - lon2))
                    dh == Min(Abs(h - lon2), 72000 - Abs(h - lon2))
                IN  dg < dh \/ (dg = dh /\ g > h)) \div 2,
     lat |-> Nearest(Twice(GridLat), lat2) \div 2]

\* lines 94-102: .sel(lon=..., lat=..., method="nearest") for one point whose
\* zarr coordinates are given in two-hundredths of a degree; each axis is
\* matched on its own index
sel_nearest(lon2, lat2) ==
    [lon |-> Nearest(Twice(GridLon), lon2) \div 2,
     lat |-> Nearest(Twice(GridLat), lat2) \div 2]

\* _reindex_to_freq: min() of an empty time coordinate raises ValueError
ReindexRaises(pd) == pd.time = <<>>

\* a reindex over the span of the whole dataset instead of the subset's
_reindex_to_dataset_span(pd, freq) ==
    LET times == DateRange(GridTime[1], GridTime[Len(GridTime)],
                           FreqMinutes(freq))
    IN  [lon  |-> pd.lon,
         lat  |-> pd.lat,
         time |-> times,
         vars |-> [k \in DOMAIN pd.vars |->
                    [t \in DOMAIN times |->
                      [z \in DOMAIN pd.lon |->
                        IF times[t] \in SeqRange(pd.time)
                        THEN pd.vars[k][IndexOf(pd.time, times[t])][z]
                        ELSE NaN]]]]

\* _reindex_to_freq: labels absent from the old index hold NaN
_reindex_to_freq(pd, freq) ==
    LET first_time == pd.time[1]
        last_time  == pd.time[Len(pd.time)]
        times      == DateRange(first_time, last_time, FreqMinutes(freq))
    IN  [lon  |-> pd.lon,
         lat  |-> pd.lat,
         time |-> times,
         vars |-> [k \in DOMAIN pd.vars |->
                    [t \in DOMAIN times |->
                      [z \in DOMAIN pd.lon |->
                        IF times[t] \in SeqRange(pd.time)
                        THEN pd.vars[k][IndexOf(pd.time, times[t])][z]
                        ELSE NaN]]]]

\* a fill that repeats the previous valid sample
interp_previous_at(arr, times, j, z) ==
    LET P == {i \in 1..j : ~IsNaN(arr[i][z])}
    IN  IF P = {} THEN NaN
        ELSE arr[CHOOSE i \in P : \A o \in P : o <= i][z]

\* calculations.interp_linear at position j of (time, z): linear in the time
\* coordinate between the nearest valid neighbours, NaN outside them
interp_linear_at(arr, times, j, z) ==
    IF ~IsNaN(arr[j][z]) THEN arr[j][z]
    ELSE LET P == {i \in 1..(j - 1) : ~IsNaN(arr[i][z])}
             N == {i \in (j + 1)..Len(arr) : ~IsNaN(arr[i][z])}
         IN  IF P = {} \/ N = {} THEN NaN
             ELSE LET p == CHOOSE i \in P : \A o \in P : o <= i
                      n == CHOOSE i \in N : \A o \in N : o >= i
                  IN  RAdd(arr[p][z],
                           RMul(RSub(arr[n][z], arr[p][z]),
                                Rat(times[j] - times[p],
                                    times[n] - times[p])))

\* a fill from the previous valid sample instead of the next one
interp_ffill_average_at(steps, arr, j, z) ==
    LET P == {i \in 1..j : ~IsNaN(arr[i][z])}
    IN  IF P = {} THEN NaN
        ELSE RDiv(arr[CHOOSE i \in P : \A o \in P : o <= i][z],
                  FromInt(steps))

\* calculations.interp_bfill_average(steps) at position j of (time, z):
\* (data / steps).bfill(dim="time")
interp_bfill_average_at(steps, arr, j, z) ==
    LET N == {i \in j..Len(arr) : ~IsNaN(arr[i][z])}
    IN  IF N = {} THEN NaN
        ELSE RDiv(arr[CHOOSE i \in N : \A o \in N : o >= i][z],
                  FromInt(steps))

\* ParameterSpec.interpolate_na
interpolate_na(spec, arr, times) ==
    [j \in DOMAIN arr |->
      [z \in DOMAIN arr[j] |->
        IF spec.interpolate_na = "interp_bfill_average"
        THEN interp_bfill_average_at(INTERPOLATED_STEPS_PER_HOUR, arr, j, z)
        ELSE interp_linear_at(arr, times, j, z)]]

\* DataService._downscale_to_freq
_downscale_to_freq(registry, pd, freq) ==
    LET reindexed == _reindex_to_freq(pd, freq)
    IN  [reindexed EXCEPT !.vars =
            [k \in DOMAIN reindexed.vars |->
                interpolate_na(registry[k], reindexed.vars[k],
                               reindexed.time)]]

\* calculations.calc_wind_speed on one element: sqrt(u*u + v*v)
calc_wind_speed(u, v) ==
    IF IsNaN(u) \/ IsNaN(v) THEN NaN
    ELSE [sqrt_of |-> RAdd(RMul(u, u), RMul(v, v))]

\* the sign of a value
Sign(v) == IF v.num > 0 THEN 1 ELSE IF v.num < 0 THEN -1 ELSE 0

\* the vector lies on one of the eight compass directions, or is calm: the
\* vectors whose angle is a whole number of degrees
OnCompass(u, v) ==
    \/ u.num = 0
    \/ v.num = 0
    \/ Abs(u.num * v.den) = Abs(v.num * u.den)

\* np.arctan2(-v, -u) in degrees; negating a zero component gives -0.0, and
\* arctan2(-0.0, x) is -0.0 for x > 0 and -180 for x < 0 or x = -0.0
ArcTan2OfNegated(v, u) ==
    CASE Sign(u) = -1 /\ Sign(v) = -1 -> 45
      [] Sign(u) = -1 /\ Sign(v) = 0  -> 0
      [] Sign(u) = -1 /\ Sign(v) = 1  -> -45
      [] Sign(u) = 0  /\ Sign(v) = -1 -> 90
      [] Sign(u) = 0  /\ Sign(v) = 0  -> -180
      [] Sign(u) = 0  /\ Sign(v) = 1  -> -90
      [] Sign(u) = 1  /\ Sign(v) = -1 -> 135
      [] Sign(u) = 1  /\ Sign(v) = 0  -> -180
      [] Sign(u) = 1  /\ Sign(v) = 1  -> -135

\* metpy.calc.wind_direction(u, v), convention "from": 90 - arctan2(-v, -u),
\* plus 360 where that is <= 0, and 0 where both components are 0; off the
\* compass directions the angle is kept as the vector it belongs to
wind_direction(u, v) ==
    IF ~OnCompass(u, v) THEN [wind_direction_of |-> <<u, v>>]
    ELSE LET wdir   == 90 - ArcTan2OfNegated(v, u)
             masked == IF wdir <= 0 THEN wdir + 360 ELSE wdir
         IN  IF u.num = 0 /\ v.num = 0 THEN FromInt(0) ELSE FromInt(masked)

\* the components handed over in the wrong order
calc_wind_direction_swapped(u, v) ==
    IF IsNaN(u) \/ IsNaN(v) THEN NaN
    ELSE wind_direction(v, u)

\* calculations.calc_wind_direction on one element
calc_wind_direction(u, v) ==
    IF IsNaN(u) \/ IsNaN(v) THEN NaN
    ELSE wind_direction(u, v)

\* ParameterSpec.calculate
calculate(spec, pd) ==
    IF spec.calculate = "lookup"
    THEN pd.vars[CHOOSE k \in spec.data_keys : TRUE]
    ELSE [t \in DOMAIN pd.time |->
           [z \in DOMAIN pd.lon |->
             IF spec.calculate = "calc_wind_speed"
             THEN calc_wind_speed(pd.vars["VAR_10U"][t][z],
                                  pd.vars["VAR_10V"][t][z])
             ELSE calc_wind_direction(pd.vars["VAR_10U"][t][z],
                                      pd.vars["VAR_10V"][t][z])]]

\* Dataset.assign: add or replace the named variables
Assign(pd, new) ==
    [pd EXCEPT !.vars =
        [k \in DOMAIN pd.vars \cup DOMAIN new |->
            IF k \in DOMAIN new THEN new[k] ELSE pd.vars[k]]]

\* DataService._calculate_output_values
_calculate_output_values(registry, requested_params, pd) ==
    Assign(pd, [p \in requested_params |-> calculate(registry[p], pd)])

\* pint: Q_(v, data_unit).to(target).magnitude for the unit pairs of the
\* catalog
PintConvert(data_unit, target, v) ==
    CASE data_unit = "K" /\ target = "degC" -> RSub(v, Rat(27315, 100))
      [] data_unit = "Pa" /\ target = "hPa" -> RDiv(v, FromInt(100))
      [] data_unit = "m" /\ target = "mm"   -> RMul(v, FromInt(1000))

\* a conversion to the default unit whatever the unit system asked for
convert_units_to_default(spec, units, arr) ==
    IF spec.data_unit = spec.units["DEFAULT"] THEN arr
    ELSE [t \in DOMAIN arr |->
           [z \in DOMAIN arr[t] |->
             PintConvert(spec.data_unit, spec.units["DEFAULT"], arr[t][z])]]

\* ParameterSpec.convert_units
convert_units(spec, units, arr) ==
    IF spec.data_unit = spec.units[units] THEN arr
    ELSE [t \in DOMAIN arr |->
           [z \in DOMAIN arr[t] |->
             PintConvert(spec.data_unit, spec.units[units], arr[t][z])]]

\* DataService._convert_units
_convert_units(registry, requested_params, units, pd) ==
    Assign(pd, [p \in requested_params |->
                    convert_units(registry[p], units, pd.vars[p])])

----------------------------------------------------------------------------
(* data_service.py: rendering and errors *)

\* a feature id of the request body: int | str | None
NoneId == [kind |-> "none", i |-> 0, s |-> ""]

IntId(n) == [kind |-> "int", i |-> n, s |-> ""]

StrId(x) == [kind |-> "str", i |-> 0, s |-> x]

\* requested_feature_ids=None
NoIds == [given |-> FALSE, list |-> <<>>]

Digit == <<"0", "1", "2", "3", "4", "5", "6", "7", "8", "9">>

TwoDigits(n) == Digit[(n \div 10) + 1] \o Digit[(n % 10) + 1]

\* str(time)[:19] + "Z" of a datetime64 of 2021-01-01
FormatTime(m) ==
    "2021-01-01T" \o TwoDigits(m \div 60) \o ":" \o TwoDigits(m % 60)
        \o ":00Z"

\* a truthiness test in place of "is not None"
HasRequestIdTruthy(ids, z_index) ==
    ids.given /\ ids.list[z_index] \notin {NoneId, IntId(0), StrId("")}

\* the condition of lines 227-230
HasRequestId(ids, z_index) == ids.given /\ ids.list[z_index] # NoneId

\* the dict built by one pass of the inner loop (lines 223-248)
RenderFeature(parameters, pd, ids, z_index, time_index, feature_seq_id) ==
    LET keys == {"DATETIME"}
                  \cup (IF HasRequestId(ids, z_index)
                        THEN {"REQUEST_ID"} ELSE {})
                  \cup parameters
    IN  [type     |-> "Feature",
         id       |-> feature_seq_id,
         geometry |-> [type |-> "Point",
                       coordinates |->
                         <<longitude_zarr_to_geojson(pd.lon[z_index]),
                           pd.lat[z_index]>>],
         properties |->
           [k \in keys |->
              IF k \in parameters THEN pd.vars[k][time_index][z_index]
              ELSE IF k = "REQUEST_ID" THEN ids.list[z_index]
              ELSE FormatTime(pd.time[time_index])]]

\* the inner loop over times for one z_index, appending to features
RECURSIVE RenderTimes(_, _, _, _, _, _)
RenderTimes(parameters, pd, ids, z_index, time_index, features) ==
    IF time_index > Len(pd.time) THEN features
    ELSE RenderTimes(parameters, pd, ids, z_index, time_index + 1,
             Append(features,
                    RenderFeature(parameters, pd, ids, z_index, time_index,
                                  Len(features) + 1)))

\* the outer loop over lons (line 221)
RECURSIVE RenderPoints(_, _, _, _, _)
RenderPoints(parameters, pd, ids, z_index, features) ==
    IF z_index > Len(pd.lon) THEN features
    ELSE RenderPoints(parameters, pd, ids, z_index + 1,
             RenderTimes(parameters, pd, ids, z_index, 1, features))

\* loops nested the other way round: every point of the first timestamp,
\* then every point of the second
_render_time_major(parameters, pd, ids) ==
    [k \in 1..(Len(pd.lon) * Len(pd.time)) |->
        RenderFeature(parameters, pd, ids, ((k - 1) % Len(pd.lon)) + 1,
                      ((k - 1) \div Len(pd.lon)) + 1, k)]

\* _render_points_geojson: the list under "features"
_render_points_geojson(parameters, pd, ids) ==
    RenderPoints(parameters, pd, ids, 1, <<>>)

\* a check against the static catalog instead of the registry
get_unsupported_params_catalog(registry, parameters) ==
    parameters \ DOMAIN SUPPORTED_PARAMETERS

\* a check that rejects a request only when none of its names is supported
get_unsupported_params_lenient(registry, parameters) ==
    IF parameters \cap DOMAIN registry # {} THEN {}
    ELSE parameters \ DOMAIN registry

\* DataService.get_unsupported_params
get_unsupported_params(registry, parameters) == parameters \ DOMAIN registry

NoResult == [kind |-> "none", error |-> "", params |-> <<>>,
             features |-> <<>>]

Returned(features) == [kind |-> "returned", error |-> "", params |-> <<>>,
                       features |-> features]

Raised(error) == [kind |-> "raised", error |-> error, params |-> <<>>,
                  features |-> <<>>]

\* ParamNotSupportedError.__init__
ParamNotSupportedError(params) ==
    [kind |-> "raised", error |-> "ParamNotSupportedError",
     params |-> IF params # {} THEN SortedList(params) ELSE <<>>,
     features |-> <<>>]

NoResponse == [status |-> 0, detail |-> "", features |-> <<>>]

\* the try/except of get_single_point and get_multiple_points; any other
\* exception is answered 500 by the framework
RouteResponse(res) ==
    IF res.kind = "returned"
    THEN [status |-> 200, detail |-> "", features |-> res.features]
    ELSE IF res.error = "ParamNotSupportedError"
    THEN [status |-> 400,
          detail |-> "Parameters not supported: " \o Join(", ", res.params),
          features |-> <<>>]
    ELSE [status |-> 500, detail |-> "Internal Server Error",
          features |-> <<>>]

----------------------------------------------------------------------------
(* data_sources.py: the pointer to the latest forecast file *)

\* the characters paths are made of
PathChars == {"s", "3", ":", "/", "b"}

\* "s3://"
S3Scheme == <<"s", "3", ":", "/", "/">>

\* str.startswith
StartsWith(str, prefix) ==
    /\ Len(str) >= Len(prefix)
    /\ SubSeq(str, 1, Len(prefix)) = prefix

SourceReturned(path) == [kind |-> "returned", error |-> "", value |-> path]

SourceRaised(error) == [kind |-> "raised", error |-> error, value |-> <<>>]

\* DynamoDBForecastSource.find_latest_zarr: None is [found |-> FALSE]
find_latest_zarr(res) ==
    CASE res.response = "raises"       -> SourceRaised("Exception")
      [] res.response = "no_item"      ->
            [kind |-> "returned", found |-> FALSE, value |-> <<>>]
      [] res.response = "no_attribute" -> SourceRaised("KeyError")
      [] res.response = "item"         ->
            [kind |-> "returned", found |-> TRUE, value |-> res.path]

\* a check of the scheme name only
validate_s3_path_scheme_only(path) == ~StartsWith(path, <<"s", "3">>)

\* validate_s3_path: TRUE when it raises ValueError
validate_s3_path(path) == ~StartsWith(path, S3Scheme)

\* ForecastSource.get_latest_zarr_path; "not path" holds of None and of ""
get_latest_zarr_path(res) ==
    LET found == find_latest_zarr(res)
    IN  IF found.kind = "raised" THEN found
        ELSE IF ~found.found \/ found.value = <<>>
        THEN SourceRaised("FileNotFoundError")
        ELSE IF validate_s3_path(found.value)
        THEN SourceRaised("ValueError")
        ELSE SourceReturned(found.value)

----------------------------------------------------------------------------
(* Inputs *)

\* datasets a DataService is built over
Datasets == {RawNames, RawNames \ {"VAR_10V"}}

\* (lon, lat) of query points: one that resolves to the grid cell
\* (1.0, 1.25) and one just east of the antimeridian
QueryPoints == {<<110, 126>>, <<-17999, 1>>}

\* identifiers of the features of a request body: absent, or one that is
\* not None and yet falsy
IdValues == {NoneId, IntId(0)}

LastNative == GridTime[NativeHours]

\* (from, to): wider than the dataset, clipped at an aligned start, starting
\* between two native timestamps, past the dataset, ending on the first
\* native timestamp, ending between two native timestamps
Windows == {<<0, LastNative + 60>>, <<60, LastNative>>, <<30, LastNative>>,
            <<LastNative + 60, LastNative + 120>>, <<-60, 0>>, <<0, 90>>}

RequestedSets ==
    (SUBSET {"VAR_2T", "TP", "10WS"} \ {{}})
        \cup {{"PACMAN"}, {"VAR_2T", "PACMAN"},
              {"PACMAN", "VAR_2T", "MARIO"}}

NoRequest ==
    [route |-> "", coords |-> <<>>, date_range |-> <<0, 0>>,
     requested_params |-> {}, requested_feature_ids |-> NoIds,
     units |-> "DEFAULT", freq |-> "1H"]

SeqsUpTo(S, n) == UNION {[1..m -> S] : m \in 0..n}

\* the calls the two routes make (forecast.py lines 90-96 and 162-173)
Requests ==
    {[route |-> "get_single_point", coords |-> <<p>>, date_range |-> w,
      requested_params |-> ps, requested_feature_ids |-> NoIds,
      units |-> u, freq |-> f] :
        p \in QueryPoints, w \in Windows, ps \in RequestedSets,
        u \in UnitSystem, f \in Frequency}
    \cup
    UNION {{[route |-> "get_multiple_points", coords |-> c, date_range |-> w,
             requested_params |-> ps,
             requested_feature_ids |-> [given |-> TRUE, list |-> ids],
             units |-> u, freq |-> f] :
               ids \in [DOMAIN c -> IdValues], w \in Windows,
               ps \in RequestedSets, u \in UnitSystem, f \in Frequency} :
           c \in SeqsUpTo(QueryPoints, MaxPoints)}

----------------------------------------------------------------------------
(* The application state shared by the requests *)

\* app.state once main.py has run load_latest_dataset(app) at import: the
\* first version is loaded at hour 0; a path is its version number
AppLoaded ==
    [predictions_filename |-> 1, predictions_dataset |-> 1,
     FROM_DATE |-> 0, TO_DATE |-> 48]

\* predictions_filename = None (main.py line 60), and an attribute of
\* app.state that was never set
None == 0

Unset == -2

\* app.state when load_latest_dataset(app) of main.py line 118 raised
AppNotLoaded ==
    [predictions_filename |-> None, predictions_dataset |-> Unset,
     FROM_DATE |-> Unset, TO_DATE |-> Unset]

NoSeen == [filename |-> 0, dataset |-> 0, from_date |-> 0, to_date |-> 0,
           from_by |-> 0, to_by |-> 0]

\* what the forecast table answers when it holds no item, and when its
\* path is no S3 URL
NoItem == 0

NotS3Url == -1

\* src/config.py GlobalConfig: the settings the services read
GlobalConfig ==
    {"WARNINGS_TABLE", "WARNINGS_HISTORY_TABLE", "FORFACT_API_URL",
     "FORFACT_API_KEY"}

ThreadIdle == [pc |-> "idle", current_timestamp |-> 0, latest_zarr |-> 0,
               opened |-> 0, to_date |-> 0, error |-> "", seen |-> NoSeen]

NoCall == [fn |-> ""]

NoRet == [kind |-> "none"]

\* what get_forcast_data was asked for and the features it answered with;
\* data = None before the first call of a run
NoForecast == [parameters |-> {}, coordinates |-> <<>>, features |-> <<>>]

CheckerIdle ==
    [pc |-> "idle", group |-> 0, hour |-> 0, data |-> NoForecast,
     warnings |-> <<>>, condition_result |-> FALSE, value |-> 0,
     sms_sent |-> FALSE, email_sent |-> FALSE]

DeleterIdle == [pc |-> "idle", keys |-> {}, calls |-> 0]

\* no warning stored, no run started
WarningsIdle ==
    /\ warnings_table = <<>>
    /\ warnings_history = {}
    /\ now = 0
    /\ checker = [r \in 1..MaxRuns |-> CheckerIdle]
    /\ runs = 0
    /\ outbox = {}
    /\ deleter = DeleterIdle
    /\ issued = 0

\* the forecast table holds the first version, no request is under way
AroundIdle ==
    /\ forecast_db = 1
    /\ clock = 0
    /\ threads = [t \in 1..NumThreads |-> ThreadIdle]
    /\ WarningsIdle

\* main.py with settings that declare the forecast table: line 118 has
\* loaded the first version
AppImported ==
    /\ config = GlobalConfig \cup {"DYNAMODB_FORECAST_TABLE"}
    /\ app_state = AppLoaded
    /\ written_by = [FROM_DATE |-> 1, TO_DATE |-> 1]
    /\ AroundIdle

\* main.py with src/config.py as written: line 118 raises AttributeError
\* (data_service.py line 166) and app.state holds predictions_filename only
AppImportFailed ==
    /\ config = GlobalConfig
    /\ app_state = AppNotLoaded
    /\ written_by = [FROM_DATE |-> 0, TO_DATE |-> 0]
    /\ AroundIdle

AppIdle ==
    /\ call = NoCall
    /\ ret = NoRet
    /\ completed = 0
    /\ AppImportFailed

----------------------------------------------------------------------------
(* The service and one request through it *)

\* the locals of a call that has not started
NoWaiting ==
    [pc |-> "idle", request |-> NoRequest, point_data |-> NoData,
     stages |-> <<>>, result |-> NoResult, response |-> NoResponse]

Init ==
    /\ dataset \in Datasets
    /\ supported_params = <<>>
    /\ params_json = <<>>
    /\ pc = "new"
    /\ request = NoRequest
    /\ point_data = NoData
    /\ stages = <<>>
    /\ result = NoResult
    /\ response = NoResponse
    /\ waiting = NoWaiting
    /\ AppIdle

\* DataService.__init__
Construct ==
    /\ pc = "new"
    /\ supported_params' = gen_supported_params(dataset)
    /\ params_json' =
         [u \in UnitSystem |->
            [k \in DOMAIN gen_supported_params(dataset) |->
                to_json(gen_supported_params(dataset)[k], u)]]
    /\ pc' = "idle"
    /\ UNCHANGED <<waiting, dataset, request, point_data, stages, result,
                   response, env_vars>>

\* lines 52-53, the parameter check, for the arguments r
check_params_supported(r) ==
    /\ request' = r
    /\ stages' = <<"check">>
    /\ IF get_unsupported_params(supported_params,
                                 r.requested_params) # {}
       THEN /\ result' = ParamNotSupportedError(
                  get_unsupported_params(supported_params,
                                         r.requested_params))
            /\ pc' = "raised"
       ELSE /\ result' = NoResult
            /\ pc' = "select"

\* a route calls get_points_as_geojson
CheckParams ==
    /\ pc = "idle"
    /\ \E r \in Requests : check_params_supported(r)
    /\ UNCHANGED <<waiting, dataset, supported_params, params_json,
                   point_data, response, env_vars>>

\* a service that resamples whatever the frequency
StageAfterSelectAlways(freq) == "resample"

\* a service that never resamples
StageAfterSelectNever(freq) == "derive"

\* line 64: the resampling stage runs unless the frequency is hourly
StageAfterSelect(freq) == IF freq # "1H" THEN "resample" ELSE "derive"

\* lines 55-63: unpack the coordinates, normalise longitudes, _load_subset
Select ==
    /\ pc = "select"
    /\ IF request.coords = <<>>
       THEN \* zip(*coords) yields nothing to unpack into lon, lat
            /\ result' = Raised("ValueError")
            /\ pc' = "raised"
            /\ UNCHANGED <<point_data, stages>>
       ELSE /\ stages' = Append(stages, "select")
            /\ IF LoadSubsetRaises(request.date_range)
               THEN /\ result' = Raised("KeyError")
                    /\ pc' = "raised"
                    /\ UNCHANGED point_data
               ELSE /\ point_data' =
                         _load_subset(
                           [z \in DOMAIN request.coords |->
                              longitude_geojson_to_zarr(request.coords[z][1])],
                           [z \in DOMAIN request.coords |->
                              request.coords[z][2]],
                           request.date_range,
                           UNION {supported_params[k].data_keys :
                                    k \in request.requested_params})
                    /\ pc' = StageAfterSelect(request.freq)
                    /\ UNCHANGED result
    /\ UNCHANGED <<waiting, dataset, supported_params, params_json, request,
                   response, env_vars>>

\* lines 64-65: _downscale_to_freq
Downscale ==
    /\ pc = "resample"
    /\ stages' = Append(stages, "resample")
    /\ IF ReindexRaises(point_data)
       THEN /\ result' = Raised("ValueError")
            /\ pc' = "raised"
            /\ UNCHANGED point_data
       ELSE /\ point_data' =
                 _downscale_to_freq(supported_params, point_data,
                                    request.freq)
            /\ pc' = "derive"
            /\ UNCHANGED result
    /\ UNCHANGED <<waiting, dataset, supported_params, params_json, request,
                   response, env_vars>>

\* a derivation that stores what it computed in the shared dataset
CalculateInPlace ==
    /\ pc = "derive"
    /\ stages' = Append(stages, "derive")
    /\ point_data' = _calculate_output_values(supported_params,
                          request.requested_params, point_data)
    /\ dataset' = dataset \cup request.requested_params
    /\ pc' = "convert"
    /\ UNCHANGED <<waiting, supported_params, params_json, request, result,
                   response, env_vars>>

\* line 66: _calculate_output_values
Calculate ==
    /\ pc = "derive"
    /\ stages' = Append(stages, "derive")
    /\ point_data' = _calculate_output_values(supported_params,
                          request.requested_params, point_data)
    /\ pc' = "convert"
    /\ UNCHANGED <<waiting, dataset, supported_params, params_json, request,
                   result, response, env_vars>>

\* line 67: _convert_units
ConvertUnits ==
    /\ pc = "convert"
    /\ stages' = Append(stages, "convert")
    /\ point_data' = _convert_units(supported_params,
                          request.requested_params, request.units, point_data)
    /\ pc' = "render"
    /\ UNCHANGED <<waiting, dataset, supported_params, params_json, request,
                   result, response, env_vars>>

\* lines 69-71: _render_points_geojson
Render ==
    /\ pc = "render"
    /\ stages' = Append(stages, "render")
    /\ result' = Returned(_render_points_geojson(request.requested_params,
                              point_data, request.requested_feature_ids))
    /\ pc' = "returned"
    /\ UNCHANGED <<waiting, dataset, supported_params, params_json, request,
                   point_data, response, env_vars>>

\* the route returns the collection or maps the exception
Respond ==
    /\ pc \in {"returned", "raised"}
    /\ response' = RouteResponse(result)
    /\ pc' = "responded"
    /\ UNCHANGED <<waiting, dataset, supported_params, params_json, request,
                   point_data, stages, result, env_vars>>

Next ==
    \/ Construct
    \/ CheckParams
    \/ Select
    \/ Downscale
    \/ Calculate
    \/ ConvertUnits
    \/ Render
    \/ Respond

Spec == Init /\ [][Next]_vars

----------------------------------------------------------------------------
(* Several calls on one DataService, one after the other, with calls of     *)
(* get_parameters in between                                                *)

\* DataService.get_points_as_geojson as a function of the dataset and the
\* arguments: what a DataService just built over ds answers to r
get_points_as_geojson(ds, r) ==
    LET registry == gen_supported_params(ds)
        params   == r.requested_params
    IN  IF get_unsupported_params(registry, params) # {}
        THEN ParamNotSupportedError(get_unsupported_params(registry, params))
        ELSE IF r.coords = <<>> THEN Raised("ValueError")
        ELSE IF LoadSubsetRaises(r.date_range) THEN Raised("KeyError")
        ELSE
          LET loaded ==
                _load_subset(
                  [z \in DOMAIN r.coords |->
                     longitude_geojson_to_zarr(r.coords[z][1])],
                  [z \in DOMAIN r.coords |-> r.coords[z][2]],
                  r.date_range,
                  UNION {registry[k].data_keys : k \in params})
              resample == StageAfterSelect(r.freq) = "resample"
          IN  IF resample /\ ReindexRaises(loaded) THEN Raised("ValueError")
              ELSE
                LET downscaled ==
                      IF resample
                      THEN _downscale_to_freq(registry, loaded, r.freq)
                      ELSE loaded
                    calculated ==
                      _calculate_output_values(registry, params, downscaled)
                    converted ==
                      _convert_units(registry, params, r.units, calculated)
                IN  Returned(_render_points_geojson(params, converted,
                                 r.requested_feature_ids))

\* the calls made on one DataService, one after the other or while another
\* one is under way: for one point, over a window with data and a window
\* past the data, for stored, derived and unsupported parameters
RepeatedRequests ==
    {[route |-> "get_single_point", coords |-> <<<<110, 126>>>>,
      date_range |-> w, requested_params |-> ps,
      requested_feature_ids |-> NoIds, units |-> "DEFAULT", freq |-> f] :
        w \in {<<0, LastNative + 60>>, <<LastNative + 60, LastNative + 120>>},
        ps \in {{"VAR_2T", "TP"}, {"10WS"}, {"PACMAN"}},
        f \in Frequency}

\* a route calls get_points_as_geojson on a DataService that may have
\* answered calls before
CheckParamsRepeated ==
    /\ pc = "idle"
    /\ \E r \in RepeatedRequests : check_params_supported(r)
    /\ UNCHANGED <<waiting, dataset, supported_params, params_json,
                   point_data, response, env_vars>>

\* the route has answered: what the call built is dropped, the DataService
\* stays
Return ==
    /\ pc = "responded"
    /\ completed < MaxCalls
    /\ completed' = completed + 1
    /\ pc' = "idle"
    /\ request' = NoRequest
    /\ point_data' = NoData
    /\ stages' = <<>>
    /\ result' = NoResult
    /\ response' = NoResponse
    /\ UNCHANGED <<waiting, dataset, supported_params, params_json, call, ret,
                   app_vars, warn_vars>>

\* DataService.get_parameters, called on the constructed service
GetParameters ==
    /\ pc # "new"
    /\ \E u \in UnitSystem :
         /\ call' = [fn |-> "get_parameters", units |-> u]
         /\ ret' = [kind |-> "returned", value |-> params_json[u]]
    /\ UNCHANGED <<completed, engine_vars, app_vars, warn_vars>>

\* two calls are under way on one DataService (sync routes run in worker
\* threads): the running call stops where it is and the other one goes on;
\* each has its own arguments and locals, the DataService is shared
Switch ==
    /\ pc # "new"
    /\ waiting # [pc |-> pc, request |-> request, point_data |-> point_data,
                  stages |-> stages, result |-> result,
                  response |-> response]
    /\ waiting' = [pc |-> pc, request |-> request, point_data |-> point_data,
                   stages |-> stages, result |-> result,
                   response |-> response]
    /\ pc' = waiting.pc
    /\ request' = waiting.request
    /\ point_data' = waiting.point_data
    /\ stages' = waiting.stages
    /\ result' = waiting.result
    /\ response' = waiting.response
    /\ UNCHANGED <<dataset, supported_params, params_json, env_vars>>

NextCalls ==
    \/ Construct
    \/ Switch
    \/ CheckParamsRepeated
    \/ Select
    \/ Downscale
    \/ Calculate
    \/ ConvertUnits
    \/ Render
    \/ Respond
    \/ Return
    \/ GetParameters

SpecCalls == Init /\ [][NextCalls]_vars

----------------------------------------------------------------------------
(* Requests served concurrently: get_data_service runs load_latest_dataset  *)
(* in the worker thread of each request, then the route reads the date      *)
(* range from app.state. Every access to app.state and every call that      *)
(* waits for the network is a step of its own: the interpreter can switch   *)
(* threads between any two of them                                          *)

\* load_latest_dataset line 163: current_timestamp = datetime.now()
BeginRequest(t) ==
    /\ threads[t].pc \in {"idle", "done", "failed"}
    /\ threads' = [threads EXCEPT ![t] =
                     [ThreadIdle EXCEPT !.pc = "make_source",
                                        !.current_timestamp = clock]]
    /\ UNCHANGED <<app_state, written_by, forecast_db, clock, config,
                   engine_vars, calc_vars, warn_vars>>

\* lines 165-168: DynamoDBForecastSource(forecast_table=c.DYNAMODB_FORECAST_TABLE)
MakeSource(t) ==
    /\ threads[t].pc = "make_source"
    /\ "DYNAMODB_FORECAST_TABLE" \in config
    /\ threads' = [threads EXCEPT ![t].pc = "get_path"]
    /\ UNCHANGED <<app_state, written_by, forecast_db, clock, config,
                   engine_vars, calc_vars, warn_vars>>

\* line 166: the configuration declares no DYNAMODB_FORECAST_TABLE
MakeSourceRaises(t) ==
    /\ threads[t].pc = "make_source"
    /\ "DYNAMODB_FORECAST_TABLE" \notin config
    /\ threads' = [threads EXCEPT ![t].pc = "failed",
                                  ![t].error = "AttributeError"]
    /\ UNCHANGED <<app_state, written_by, forecast_db, clock, config,
                   engine_vars, calc_vars, warn_vars>>

\* line 170: get_latest_zarr_path returns the path the forecast table holds
GetLatestZarrPath(t) ==
    /\ threads[t].pc = "get_path"
    /\ forecast_db >= 1
    /\ threads' = [threads EXCEPT ![t].pc = "compare",
                                  ![t].latest_zarr = forecast_db]
    /\ UNCHANGED <<app_state, written_by, forecast_db, clock, config,
                   engine_vars, calc_vars, warn_vars>>

\* line 170: get_latest_zarr_path raises FileNotFoundError when the table
\* holds no item and ValueError when its path is no S3 URL
GetLatestZarrPathRaises(t) ==
    /\ threads[t].pc = "get_path"
    /\ forecast_db < 1
    /\ threads' = [threads EXCEPT
                     ![t].pc = "failed",
                     ![t].error = IF forecast_db = NoItem
                                  THEN "FileNotFoundError"
                                  ELSE "ValueError"]
    /\ UNCHANGED <<app_state, written_by, forecast_db, clock, config,
                   engine_vars, calc_vars, warn_vars>>

\* an early return that also moves the date range to the hour of the request
AlreadyLoadedRefreshing(t) ==
    /\ threads[t].pc = "compare"
    /\ threads[t].latest_zarr = app_state.predictions_filename
    /\ app_state' = [app_state EXCEPT
                       !.FROM_DATE = threads[t].current_timestamp,
                       !.TO_DATE = threads[t].current_timestamp + 48]
    /\ threads' = [threads EXCEPT ![t].pc = "make_service",
                                  ![t].seen.filename =
                                      app_state.predictions_filename]
    /\ UNCHANGED <<written_by, forecast_db, clock, config, engine_vars,
                   calc_vars, warn_vars>>

\* lines 171-173: already loaded
AlreadyLoaded(t) ==
    /\ threads[t].pc = "compare"
    /\ threads[t].latest_zarr = app_state.predictions_filename
    /\ threads' = [threads EXCEPT ![t].pc = "make_service",
                                  ![t].seen.filename =
                                      app_state.predictions_filename]
    /\ UNCHANGED <<app_state, written_by, forecast_db, clock, config,
                   engine_vars, calc_vars, warn_vars>>

\* line 171: the path is not the loaded one
FindsNewPath(t) ==
    /\ threads[t].pc = "compare"
    /\ threads[t].latest_zarr # app_state.predictions_filename
    /\ threads' = [threads EXCEPT ![t].pc = "set_filename"]
    /\ UNCHANGED <<app_state, written_by, forecast_db, clock, config,
                   engine_vars, calc_vars, warn_vars>>

\* line 175
SetFilename(t) ==
    /\ threads[t].pc = "set_filename"
    /\ app_state' = [app_state EXCEPT !.predictions_filename =
                                          threads[t].latest_zarr]
    /\ threads' = [threads EXCEPT ![t].pc = "load_index",
                                  ![t].seen.filename = threads[t].latest_zarr]
    /\ UNCHANGED <<written_by, forecast_db, clock, config, engine_vars,
                   calc_vars, warn_vars>>

\* line 176, right-hand side: load_index opens the path app.state holds
\* when it is read
LoadIndex(t) ==
    /\ threads[t].pc = "load_index"
    /\ threads' = [threads EXCEPT ![t].pc = "set_dataset",
                                  ![t].opened = app_state.predictions_filename]
    /\ UNCHANGED <<app_state, written_by, forecast_db, clock, config,
                   engine_vars, calc_vars, warn_vars>>

\* line 176: xr.open_zarr raises, the request ends with the exception
LoadIndexRaises(t) ==
    /\ threads[t].pc = "load_index"
    /\ threads' = [threads EXCEPT ![t].pc = "failed",
                                  ![t].error = "open_zarr"]
    /\ UNCHANGED <<app_state, written_by, forecast_db, clock, config,
                   engine_vars, calc_vars, warn_vars>>

\* line 176, assignment: app.state.predictions_dataset = the dataset opened
SetDataset(t) ==
    /\ threads[t].pc = "set_dataset"
    /\ app_state' = [app_state EXCEPT !.predictions_dataset =
                                          threads[t].opened]
    /\ threads' = [threads EXCEPT ![t].pc = "set_from_date"]
    /\ UNCHANGED <<written_by, forecast_db, clock, config, engine_vars,
                   calc_vars, warn_vars>>

\* lines 179-181
SetFromDate(t) ==
    /\ threads[t].pc = "set_from_date"
    /\ app_state' = [app_state EXCEPT !.FROM_DATE =
                                          threads[t].current_timestamp]
    /\ written_by' = [written_by EXCEPT !.FROM_DATE = threads[t].latest_zarr]
    /\ threads' = [threads EXCEPT ![t].pc = "read_for_to_date"]
    /\ UNCHANGED <<forecast_db, clock, config, engine_vars, calc_vars,
                   warn_vars>>

\* line 182, right-hand side: app.state.FROM_DATE + timedelta(hours=48)
ReadForToDate(t) ==
    /\ threads[t].pc = "read_for_to_date"
    /\ threads' = [threads EXCEPT ![t].pc = "set_to_date",
                                  ![t].to_date = app_state.FROM_DATE + 48]
    /\ UNCHANGED <<app_state, written_by, forecast_db, clock, config,
                   engine_vars, calc_vars, warn_vars>>

\* line 182, assignment
SetToDate(t) ==
    /\ threads[t].pc = "set_to_date"
    /\ app_state' = [app_state EXCEPT !.TO_DATE = threads[t].to_date]
    /\ written_by' = [written_by EXCEPT !.TO_DATE = threads[t].latest_zarr]
    /\ threads' = [threads EXCEPT ![t].pc = "make_service"]
    /\ UNCHANGED <<forecast_db, clock, config, engine_vars, calc_vars,
                   warn_vars>>

\* get_data_service line 190: DataService(app.state.predictions_dataset)
MakeService(t) ==
    /\ threads[t].pc = "make_service"
    /\ threads' = [threads EXCEPT ![t].pc = "read_from_date",
                                  ![t].seen.dataset =
                                      app_state.predictions_dataset]
    /\ UNCHANGED <<app_state, written_by, forecast_db, clock, config,
                   engine_vars, calc_vars, warn_vars>>

\* forecast.py lines 92 and 168: request.app.state.FROM_DATE
ReadFromDate(t) ==
    /\ threads[t].pc = "read_from_date"
    /\ threads' = [threads EXCEPT ![t].pc = "read_to_date",
                                  ![t].seen.from_date = app_state.FROM_DATE,
                                  ![t].seen.from_by = written_by.FROM_DATE]
    /\ UNCHANGED <<app_state, written_by, forecast_db, clock, config,
                   engine_vars, calc_vars, warn_vars>>

\* forecast.py lines 92 and 168: request.app.state.TO_DATE
ReadToDate(t) ==
    /\ threads[t].pc = "read_to_date"
    /\ threads' = [threads EXCEPT ![t].pc = "done",
                                  ![t].seen.to_date = app_state.TO_DATE,
                                  ![t].seen.to_by = written_by.TO_DATE]
    /\ UNCHANGED <<app_state, written_by, forecast_db, clock, config,
                   engine_vars, calc_vars, warn_vars>>

\* a newer forecast is announced in the forecast table
Publish ==
    /\ forecast_db >= 1
    /\ forecast_db < MaxVersion
    /\ forecast_db' = forecast_db + 1
    /\ UNCHANGED <<app_state, written_by, clock, threads, config,
                   engine_vars, calc_vars, warn_vars>>

\* the item of the resolution is gone from the forecast table
LoseItem ==
    /\ forecast_db >= 1
    /\ forecast_db' = NoItem
    /\ UNCHANGED <<app_state, written_by, clock, threads, config,
                   engine_vars, calc_vars, warn_vars>>

\* the forecast table holds a path that is no S3 URL
SpoilItem ==
    /\ forecast_db >= 1
    /\ forecast_db' = NotS3Url
    /\ UNCHANGED <<app_state, written_by, clock, threads, config,
                   engine_vars, calc_vars, warn_vars>>

\* an hour passes
Tick ==
    /\ clock < MaxClock
    /\ clock' = clock + 1
    /\ UNCHANGED <<app_state, written_by, forecast_db, threads, config,
                   engine_vars, calc_vars, warn_vars>>

EngineIdle ==
    /\ dataset = RawNames
    /\ supported_params = <<>>
    /\ params_json = <<>>
    /\ pc = "new"
    /\ request = NoRequest
    /\ point_data = NoData
    /\ stages = <<>>
    /\ result = NoResult
    /\ response = NoResponse
    /\ waiting = NoWaiting

\* the application after main.py: the settings are src/config.py as
\* written, or settings that also declare the forecast table
InitApp ==
    /\ EngineIdle
    /\ call = NoCall
    /\ ret = NoRet
    /\ completed = 0
    /\ \/ AppImported
       \/ AppImportFailed

\* the steps of a request after its first
RequestStep(t) ==
    \/ MakeSource(t)
    \/ MakeSourceRaises(t)
    \/ GetLatestZarrPath(t)
    \/ AlreadyLoaded(t)
    \/ FindsNewPath(t)
    \/ SetFilename(t)
    \/ LoadIndex(t)
    \/ SetDataset(t)
    \/ SetFromDate(t)
    \/ ReadForToDate(t)
    \/ SetToDate(t)
    \/ MakeService(t)
    \/ ReadFromDate(t)
    \/ ReadToDate(t)

\* every step of the threads while the forecast table holds valid paths
\* and every dataset opens
NextSwap ==
    \/ \E t \in 1..NumThreads :
         \/ BeginRequest(t)
         \/ RequestStep(t)
    \/ Publish
    \/ Tick

\* requests interleaved with dataset swaps, every load succeeding
SpecSwap == InitApp /\ [][NextSwap]_vars

NextApp ==
    \/ NextSwap
    \/ \E t \in 1..NumThreads :
         \/ LoadIndexRaises(t)
         \/ GetLatestZarrPathRaises(t)
    \/ LoseItem
    \/ SpoilItem

\* a request that begins while no other request is inside
\* load_latest_dataset or the route
BeginRequestAlone(t) ==
    /\ \A o \in 1..NumThreads : threads[o].pc \in {"idle", "done", "failed"}
    /\ BeginRequest(t)

\* requests served one after the other, loads that fail included
NextLoads ==
    \/ \E t \in 1..NumThreads :
         \/ BeginRequestAlone(t)
         \/ RequestStep(t)
         \/ LoadIndexRaises(t)
         \/ GetLatestZarrPathRaises(t)
    \/ Publish
    \/ LoseItem
    \/ SpoilItem
    \/ Tick

SpecLoads == InitApp /\ [][NextLoads]_vars

SpecApp == InitApp /\ [][NextApp]_vars

----------------------------------------------------------------------------
(* The registry built over any set of stored variables *)

InitRegistry ==
    /\ dataset \in SUBSET RawNames
    /\ supported_params = <<>>
    /\ params_json = <<>>
    /\ pc = "new"
    /\ request = NoRequest
    /\ point_data = NoData
    /\ stages = <<>>
    /\ result = NoResult
    /\ response = NoResponse
    /\ waiting = NoWaiting
    /\ AppIdle

NextRegistry ==
    \/ Construct
    \/ GetParameters

SpecRegistry == InitRegistry /\ [][NextRegistry]_vars

----------------------------------------------------------------------------
(* The warnings service: check_warnings over the warnings table            *)
(*                                                                          *)
(* An item of the warnings table keeps the attributes check_warnings reads  *)
(* or writes (user_id, name, location, email and phone_number are left      *)
(* out); lon, lat, value and the forecast values are whole numbers;         *)
(* warning_datetime is an hour; an attribute the item does not have is "".  *)
(* The forecast API is taken to answer one feature per requested            *)
(* coordinate, at that coordinate, with the requested parameters, for every *)
(* hour a warning is due; the time axis of its answer is left out.          *)

\* models.py Condition
Condition == {"GREATER_THAN", "LESS_THAN", "GREATER_THAN_E", "LESS_THAN_E"}

\* line 244-248
LeadTimes == <<6, 12, 48>>

before_hour_keys == <<"before_6", "before_12", "before_48">>

\* str(True), str(False)
Str(b) == IF b THEN "True" ELSE "False"

\* the elements of a sequence in order of first appearance (the keys of a
\* dict filled in that order)
RECURSIVE Keys(_)
Keys(s) ==
    IF s = <<>> THEN <<>>
    ELSE LET front == Keys(SubSeq(s, 1, Len(s) - 1))
             last  == s[Len(s)]
         IN  IF \E i \in 1..Len(front) : front[i] = last
             THEN front
             ELSE Append(front, last)

\* utils.py find_closest_number: the first number at the least distance
RECURSIVE closest_from(_, _, _, _)
closest_from(value, values, i, closest) ==
    IF i > Len(values) THEN closest
    ELSE closest_from(value, values, i + 1,
             IF closest = 0
                   \/ Abs(values[i] - value) < Abs(values[closest] - value)
             THEN i ELSE closest)

find_closest_number(value, values) ==
    values[closest_from(value, values, 1, 0)]

\* the value the forecast holds for a parameter at a coordinate
ForecastValue(coord, parameter) ==
    (IF parameter = "VAR_2T" THEN 9 ELSE 10) + coord[1]

\* hash((lon, lat)) & 7 in CPython, for the places of the warnings: the slot
\* of the coordinate in the table of a small set
SetSlot(coord) ==
    CASE coord = <<0, 0>> -> 7
      [] coord = <<3, 1>> -> 0

\* list(set(coordinates)): the coordinates in the order of their slots
RECURSIVE CoordinateList(_)
CoordinateList(S) ==
    IF S = {} THEN <<>>
    ELSE LET first == CHOOSE c \in S : \A d \in S : SetSlot(c) <= SetSlot(d)
         IN  <<first>> \o CoordinateList(S \ {first})

\* forcast_service.py get_forcast_data and convert_forcast_data
get_forcast_data(parameters, coordinates) ==
    [parameters  |-> parameters,
     coordinates |-> coordinates,
     features    |-> [i \in 1..Len(coordinates) |->
                        [lon |-> coordinates[i][1],
                         lat |-> coordinates[i][2],
                         properties |->
                            [p \in parameters |->
                                ForecastValue(coordinates[i], p)]]]]

\* lines 228-235: op_dict[condition] is a bound method of check_value
Operation(condition, check_value, value) ==
    CASE condition = "GREATER_THAN"   -> check_value > value
      [] condition = "GREATER_THAN_E" -> check_value >= value
      [] condition = "LESS_THAN"      -> check_value < value
      [] condition = "LESS_THAN_E"    -> check_value <= value

\* warnings_service.py check_warning_condition
check_warning_condition(warning, forcast_data) ==
    LET features    == forcast_data.features
        longitudes  == Keys([i \in 1..Len(features) |-> features[i].lon])
        lon_closest == find_closest_number(warning.lon, longitudes)
        column      == SelectSeq(features, LAMBDA f : f.lon = lon_closest)
        latitudes   == Keys([i \in 1..Len(column) |-> column[i].lat])
        latclosest  == find_closest_number(warning.lat, latitudes)
        cell        == SelectSeq(column, LAMBDA f : f.lat = latclosest)
        properties  == cell[Len(cell)].properties
    IN  IF warning.parameter \notin DOMAIN properties
        THEN [kind |-> "raised", error |-> "KeyError"]
        ELSE [kind   |-> "returned",
              result |-> Operation(warning.condition, warning.value,
                                   properties[warning.parameter]),
              value  |-> properties[warning.parameter]]

\* line 271: sent_key in warning and warning[sent_key] == "True"
AlreadySent(warning, sent_key) == warning[sent_key] = "True"

\* lines 268-272: the warning is passed over
PassedOver(warning, before_hour_key) ==
    \/ ~(warning[before_hour_key] = "True")
    \/ AlreadySent(warning, before_hour_key \o "_sent")

\* the orders a set of items can be answered in
Orders(S) ==
    {s \in [1..Cardinality(S) -> S] :
        \A i, j \in 1..Cardinality(S) : s[i] = s[j] => i = j}

\* get_before_hours_warnings([hour]), line 103: the items whose
\* warning_datetime is the hour read at line 98 plus hour, in the order the
\* index answers in; the answers the query can give
get_before_hours_warnings(hour_now, hour) ==
    LET due == {i \in DOMAIN warnings_table :
                   warnings_table[i].warning_datetime = hour_now + hour}
    IN  {[k \in 1..Cardinality(due) |-> warnings_table[ids[k]]] :
            ids \in Orders(due)}

\* the warnings users add: what the warning asks about (a parameter at a
\* place), the hour it is for, and the lead times at which its owner wants
\* to be notified (before_6, before_12, before_48)
WarningKinds ==
    LET Kind(p, lon, lat, due, wanted) ==
            [subject |-> [parameter |-> p, lon |-> lon, lat |-> lat],
             due |-> due, wanted |-> wanted]
        all  == <<TRUE, TRUE, TRUE>>
        none == <<FALSE, FALSE, FALSE>>
    IN  {Kind("VAR_2T", 0, 0, 6, all),
         Kind("VAR_2T", 3, 1, 12, all),
         Kind("TP",     0, 0, 12, all),
         Kind("VAR_2T", 0, 0, 48, none)}

\* add_warning: the item stored for a new warning
WarningItem(id, subject, due, wanted) ==
    [id |-> id, parameter |-> subject.parameter,
     lon |-> subject.lon, lat |-> subject.lat,
     condition |-> "GREATER_THAN", value |-> 10,
     warning_datetime |-> due,
     before_6 |-> Str(wanted[1]), before_12 |-> Str(wanted[2]),
     before_48 |-> Str(wanted[3]),
     before_6_sent |-> "", before_12_sent |-> "", before_48_sent |-> "",
     email_body |-> <<>>]

\* an item that has its key only: every other attribute is absent, and the
\* item is in no index
KeyOnlyItem(id) ==
    [id |-> id, parameter |-> "", lon |-> 0, lat |-> 0,
     condition |-> "", value |-> 0, warning_datetime |-> -1,
     before_6 |-> "", before_12 |-> "", before_48 |-> "",
     before_6_sent |-> "", before_12_sent |-> "", before_48_sent |-> "",
     email_body |-> <<>>]

\* update_warning_field: update_item sets one attribute, and creates the
\* item when the table holds none of that id
update_warning_field(table, item_id, field, value) ==
    [i \in DOMAIN table \cup {item_id} |->
        IF i # item_id THEN table[i]
        ELSE [(IF i \in DOMAIN table THEN table[i] ELSE KeyOnlyItem(i))
                 EXCEPT ![field] = value]]

InitWarnings ==
    /\ EngineIdle
    /\ call = NoCall
    /\ ret = NoRet
    /\ completed = 0
    /\ AppImportFailed

\* add_warning (route POST /warnings): put_item under a new id
AddWarning ==
    /\ issued < NumWarnings
    /\ \E k \in WarningKinds :
         warnings_table' =
            [i \in DOMAIN warnings_table \cup {issued + 1} |->
                IF i = issued + 1
                THEN WarningItem(i, k.subject, k.due, k.wanted)
                ELSE warnings_table[i]]
    /\ issued' = issued + 1
    /\ UNCHANGED <<warnings_history, now, checker, runs, outbox, deleter,
                   engine_vars, app_vars, calc_vars>>

\* delete_all line 81: table.scan()
DeleteScan ==
    /\ deleter.pc = "idle"
    /\ deleter.calls < MaxDeletes
    /\ deleter' = [pc |-> "scanned", keys |-> DOMAIN warnings_table,
                   calls |-> deleter.calls + 1]
    /\ UNCHANGED <<warnings_table, warnings_history, now, checker, runs,
                   outbox, issued, engine_vars, app_vars, calc_vars>>

\* delete_all lines 83-89: the batch writer deletes the scanned keys
DeleteBatch ==
    /\ deleter.pc = "scanned"
    /\ warnings_table' = [i \in DOMAIN warnings_table \ deleter.keys |->
                            warnings_table[i]]
    /\ deleter' = [deleter EXCEPT !.pc = "idle", !.keys = {}]
    /\ UNCHANGED <<warnings_history, now, checker, runs, outbox, issued,
                   engine_vars, app_vars, calc_vars>>

\* check_warnings line 243; the runs are numbered in the order they start
StartCheck(r) ==
    /\ checker[r].pc = "idle"
    /\ r = runs + 1
    /\ runs' = r
    /\ checker' = [checker EXCEPT ![r] =
                     [CheckerIdle EXCEPT !.pc = "hour", !.group = 1]]
    /\ UNCHANGED <<warnings_table, warnings_history, now, outbox, deleter,
                   issued, engine_vars, app_vars, calc_vars>>

\* a run that starts when no other run is under way
StartCheckAlone(r) ==
    /\ \A o \in 1..MaxRuns : checker[o].pc \in {"idle", "returned", "raised"}
    /\ StartCheck(r)

AtGroup(r) == checker[r].group <= Len(LeadTimes)

\* get_before_hours_warnings line 98: datetime.utcnow()
ReadHour(r) ==
    /\ checker[r].pc = "hour"
    /\ AtGroup(r)
    /\ checker' = [checker EXCEPT ![r].pc = "query", ![r].hour = now]
    /\ UNCHANGED <<warnings_table, warnings_history, now, runs, outbox,
                   deleter, issued, engine_vars, app_vars, calc_vars>>

\* the answers the query of line 103 can give to run r
GroupWarnings(r) ==
    get_before_hours_warnings(checker[r].hour, LeadTimes[checker[r].group])

\* lines 249-259: no warning is due at this lead time
EmptyGroup(r) ==
    /\ checker[r].pc = "query"
    /\ GroupWarnings(r) = {<<>>}
    /\ checker' = [checker EXCEPT ![r].pc = "hour",
                                  ![r].group = checker[r].group + 1]
    /\ UNCHANGED <<warnings_table, warnings_history, now, runs, outbox,
                   deleter, issued, engine_vars, app_vars, calc_vars>>

\* lines 249-261: the first group with warnings goes on to ask the forecast
QueryGroup(r) ==
    /\ checker[r].pc = "query"
    /\ checker[r].data.features = <<>>
    /\ \E warnings \in GroupWarnings(r) :
         /\ warnings # <<>>
         /\ checker' = [checker EXCEPT ![r].pc = "post",
                                       ![r].warnings = warnings]
    /\ UNCHANGED <<warnings_table, warnings_history, now, runs, outbox,
                   deleter, issued, engine_vars, app_vars, calc_vars>>

\* lines 250-265: get_forcast_data for the coordinates and parameters of
\* the group
LoadForecast(r) ==
    /\ checker[r].pc = "post"
    /\ LET warnings    == checker[r].warnings
           coordinates ==
               CoordinateList({<<warnings[i].lon, warnings[i].lat>> :
                                 i \in 1..Len(warnings)})
           parameters  ==
               {warnings[i].parameter : i \in 1..Len(warnings)}
       IN  checker' = [checker EXCEPT
                         ![r].pc = "loop",
                         ![r].data = get_forcast_data(parameters,
                                                      coordinates)]
    /\ UNCHANGED <<warnings_table, warnings_history, now, runs, outbox,
                   deleter, issued, engine_vars, app_vars, calc_vars>>

\* lines 249-261: a later group with warnings keeps the data of the run
KeepForecast(r) ==
    /\ checker[r].pc = "query"
    /\ checker[r].data.features # <<>>
    /\ \E warnings \in GroupWarnings(r) :
         /\ warnings # <<>>
         /\ checker' = [checker EXCEPT ![r].pc = "loop",
                                       ![r].warnings = warnings]
    /\ UNCHANGED <<warnings_table, warnings_history, now, runs, outbox,
                   deleter, issued, engine_vars, app_vars, calc_vars>>

AtWarning(r) == checker[r].pc = "loop" /\ checker[r].warnings # <<>>

\* the warning run r is dealing with, and the keys of its group
Warning(r) == Head(checker[r].warnings)

BeforeKey(r) == before_hour_keys[checker[r].group]

SentKey(r) == BeforeKey(r) \o "_sent"

\* lines 268-272: continue
SkipWarning(r) ==
    /\ AtWarning(r)
    /\ PassedOver(Warning(r), BeforeKey(r))
    /\ checker' = [checker EXCEPT ![r].warnings = Tail(checker[r].warnings)]
    /\ UNCHANGED <<warnings_table, warnings_history, now, runs, outbox,
                   deleter, issued, engine_vars, app_vars, calc_vars>>

\* line 274: check_warning_condition raises, and check_warnings with it
ConditionRaises(r) ==
    /\ AtWarning(r)
    /\ ~PassedOver(Warning(r), BeforeKey(r))
    /\ check_warning_condition(Warning(r), checker[r].data).kind = "raised"
    /\ checker' = [checker EXCEPT ![r] =
                     [CheckerIdle EXCEPT !.pc = "raised"]]
    /\ UNCHANGED <<warnings_table, warnings_history, now, runs, outbox,
                   deleter, issued, engine_vars, app_vars, calc_vars>>

\* lines 274-281 and notify_warning line 194: the condition is checked and
\* the text of the message is written to the item
WriteEmailBody(r) ==
    /\ AtWarning(r)
    /\ ~PassedOver(Warning(r), BeforeKey(r))
    /\ LET checked == check_warning_condition(Warning(r), checker[r].data)
       IN  /\ checked.kind = "returned"
           /\ checker' = [checker EXCEPT ![r].pc = "sms",
                                         ![r].condition_result =
                                             checked.result,
                                         ![r].value = checked.value]
           /\ warnings_table' =
                update_warning_field(warnings_table, Warning(r).id,
                    "email_body",
                    <<Warning(r).condition, Warning(r).parameter,
                      Warning(r).value, Str(checked.result),
                      checked.value>>)
    /\ UNCHANGED <<warnings_history, now, runs, outbox, deleter, issued,
                   engine_vars, app_vars, calc_vars>>

\* a message handed to a channel: who it is for, and whether the channel
\* answered 200
Message(r, channel, sent) ==
    [channel |-> channel, warning |-> Warning(r).id, sent_key |-> SentKey(r),
     run |-> r, sent |-> sent]

\* notify_warning line 196: send_sms
SendSms(r) ==
    /\ checker[r].pc = "sms"
    /\ \E sms_sent \in BOOLEAN :
         /\ checker' = [checker EXCEPT ![r].pc = "email",
                                       ![r].sms_sent = sms_sent]
         /\ outbox' = outbox \cup {Message(r, "sms", sms_sent)}
    /\ UNCHANGED <<warnings_table, warnings_history, now, runs, deleter,
                   issued, engine_vars, app_vars, calc_vars>>

\* notify_warning line 197: send_email
SendEmail(r) ==
    /\ checker[r].pc = "email"
    /\ \E email_sent \in BOOLEAN :
         /\ checker' = [checker EXCEPT ![r].pc = "history",
                                       ![r].email_sent = email_sent]
         /\ outbox' = outbox \cup {Message(r, "email", email_sent)}
    /\ UNCHANGED <<warnings_table, warnings_history, now, runs, deleter,
                   issued, engine_vars, app_vars, calc_vars>>

\* notify_warning lines 199-205, add_warning_history: put_item under a new
\* id; in place of the id the history item notes the warning, the sent_key
\* and the run it was written for
AddWarningHistory(r) ==
    /\ checker[r].pc = "history"
    /\ warnings_history' = warnings_history \cup
          {[warning          |-> Warning(r).id,
            sent_key         |-> SentKey(r),
            run              |-> r,
            parameter        |-> Warning(r).parameter,
            warning_datetime |-> Warning(r).warning_datetime,
            condition        |-> Warning(r).condition,
            lon              |-> Warning(r).lon,
            lat              |-> Warning(r).lat,
            value            |-> Warning(r).value,
            real_value       |-> checker[r].value,
            result           |-> Str(checker[r].condition_result),
            sms_sent         |-> Str(checker[r].sms_sent),
            email_sent       |-> Str(checker[r].email_sent)]}
    /\ checker' = [checker EXCEPT ![r].pc = "flag"]
    /\ UNCHANGED <<warnings_table, now, runs, outbox, deleter, issued,
                   engine_vars, app_vars, calc_vars>>

\* notify_warning lines 206-208: the sent flag is stored, and the loop of
\* line 267 goes on
WriteSentFlag(r) ==
    /\ checker[r].pc = "flag"
    /\ warnings_table' =
         update_warning_field(warnings_table, Warning(r).id, SentKey(r),
             Str(checker[r].sms_sent \/ checker[r].email_sent))
    /\ checker' = [checker EXCEPT ![r].pc = "loop",
                                  ![r].warnings = Tail(checker[r].warnings)]
    /\ UNCHANGED <<warnings_history, now, runs, outbox, deleter, issued,
                   engine_vars, app_vars, calc_vars>>

\* run r is about to make the first call of notify_warning, the update of
\* email_body (line 194)
AtEmailBody(r) ==
    /\ AtWarning(r)
    /\ ~PassedOver(Warning(r), BeforeKey(r))
    /\ check_warning_condition(Warning(r), checker[r].data).kind = "returned"

\* a call to DynamoDB, the forecast API, SNS or SES raises (none is caught),
\* and check_warnings with it
CallRaises(r) ==
    /\ \/ checker[r].pc \in {"query", "post", "sms", "email", "history",
                             "flag"}
       \/ AtEmailBody(r)
    /\ checker' = [checker EXCEPT ![r] =
                     [CheckerIdle EXCEPT !.pc = "raised"]]
    /\ UNCHANGED <<warnings_table, warnings_history, now, runs, outbox,
                   deleter, issued, engine_vars, app_vars, calc_vars>>

\* line 267: the warnings of the group are exhausted
NextGroup(r) ==
    /\ checker[r].pc = "loop"
    /\ checker[r].warnings = <<>>
    /\ checker' = [checker EXCEPT ![r].pc = "hour",
                                  ![r].group = checker[r].group + 1]
    /\ UNCHANGED <<warnings_table, warnings_history, now, runs, outbox,
                   deleter, issued, engine_vars, app_vars, calc_vars>>

\* line 244: the loop over the lead times is exhausted
EndCheck(r) ==
    /\ checker[r].pc = "hour"
    /\ ~AtGroup(r)
    /\ checker' = [checker EXCEPT ![r] =
                     [CheckerIdle EXCEPT !.pc = "returned"]]
    /\ UNCHANGED <<warnings_table, warnings_history, now, runs, outbox,
                   deleter, issued, engine_vars, app_vars, calc_vars>>

\* an hour passes
HourPasses ==
    /\ now < MaxHour
    /\ now' = now + 1
    /\ UNCHANGED <<warnings_table, warnings_history, checker, runs, outbox,
                   deleter, issued, engine_vars, app_vars, calc_vars>>

\* the steps of a run after its first
CheckStep(r) ==
    \/ ReadHour(r)
    \/ EmptyGroup(r)
    \/ QueryGroup(r)
    \/ LoadForecast(r)
    \/ KeepForecast(r)
    \/ SkipWarning(r)
    \/ ConditionRaises(r)
    \/ WriteEmailBody(r)
    \/ SendSms(r)
    \/ SendEmail(r)
    \/ AddWarningHistory(r)
    \/ WriteSentFlag(r)
    \/ CallRaises(r)
    \/ NextGroup(r)
    \/ EndCheck(r)

\* what happens around the runs: warnings are added, all are deleted, the
\* hour turns
TableStep ==
    \/ AddWarning
    \/ DeleteScan
    \/ DeleteBatch
    \/ HourPasses

NextWarnings ==
    \/ \E r \in 1..MaxRuns :
         \/ StartCheckAlone(r)
         \/ CheckStep(r)
    \/ TableStep

\* check_warnings runs one after the other, while warnings are added and
\* deleted
SpecWarnings == InitWarnings /\ [][NextWarnings]_vars

\* the warnings added before the first run
AddWarningFirst ==
    /\ runs = 0
    /\ AddWarning

NextOverlap ==
    \/ \E r \in 1..MaxRuns :
         \/ StartCheck(r)
         \/ CheckStep(r)
    \/ AddWarningFirst

\* check_warnings called again while a run is under way, over the warnings
\* added before
SpecOverlap == InitWarnings /\ [][NextOverlap]_vars

----------------------------------------------------------------------------

(* Functions applied on their own to arguments drawn from bounded sets      *)

\* values handed to convert_units, in hundredths, and NaN
ConvertValues ==
    {Rat(n, 100) : n \in {-100, 0, 1, 27315, 30000, 10132500}} \cup {NaN}

ConvertCalls ==
    {[fn |-> "convert_units", param |-> k, units |-> u, value |-> x] :
        k \in DOMAIN SUPPORTED_PARAMETERS, u \in UnitSystem,
        x \in ConvertValues}

\* every GeoJSON longitude the routes accept (ge=-180, le=180), in
\* hundredths of a degree
LongitudeCalls ==
    {[fn |-> "longitude", lon |-> l] : l \in -18000..18000}

\* wind vectors on the eight compass directions, and the calm one
WindCalls ==
    {[fn |-> "calc_wind_direction", u |-> u, v |-> v] :
        <<u, v>> \in {w \in (-MaxWind..MaxWind) \X (-MaxWind..MaxWind) :
                        w[1] = 0 \/ w[2] = 0 \/ Abs(w[1]) = Abs(w[2])}}

\* what db_client.get_item does: raises, answers without "Item", answers
\* with an Item that lacks ZarrS3Path, or answers with the path; a path is
\* its sequence of characters
SourceCalls ==
    {[fn |-> "get_latest_zarr_path", response |-> r, path |-> <<>>] :
        r \in {"raises", "no_item", "no_attribute"}}
    \cup {[fn |-> "get_latest_zarr_path", response |-> "item", path |-> p] :
            p \in SeqsUpTo(PathChars, MaxPathLen)}

\* query points (GeoJSON longitude and latitude in hundredths of a degree,
\* each with an optional half hundredth more) around the prime meridian, the
\* antimeridian and the edges of the grid
ResolveCalls ==
    {[fn |-> "resolve", lon |-> l, lon_half |-> lh, lat |-> a,
      lat_half |-> ah] :
        l \in (-150..150) \cup (17900..18000) \cup (-18000..-17900)
                \cup {9025, -14050},
        lh \in {0, 1},
        a \in {-150, -113, -112, -100, -13, -12, 0, 1, 12, 13, 112, 113,
               125, 150},
        ah \in {0, 1}}

\* a warning of each condition with its threshold, and the forecast value
\* found for it
ConditionCalls ==
    {[fn |-> "check_warning_condition", condition |-> c, value |-> x,
      forecast |-> f] :
        c \in Condition, x \in -MaxValue..MaxValue,
        f \in -MaxValue..MaxValue}

InitCalc ==
    /\ EngineIdle
    /\ AppImportFailed
    /\ ret = NoRet
    /\ completed = 0
    /\ \/ call \in ConvertCalls
       \/ call \in LongitudeCalls
       \/ call \in WindCalls
       \/ call \in SourceCalls
       \/ call \in ResolveCalls
       \/ call \in ConditionCalls

\* SUPPORTED_PARAMETERS[param].convert_units(units, data) on a 1x1 array
ApplyConvertUnits ==
    /\ call.fn = "convert_units"
    /\ ret = NoRet
    /\ ret' = [kind |-> "returned",
               value |-> convert_units(SUPPORTED_PARAMETERS[call.param],
                             call.units, <<<<call.value>>>>)[1][1]]
    /\ UNCHANGED <<call, completed, engine_vars, app_vars, warn_vars>>

\* lines 58 and 213: longitude_geojson_to_zarr on the query longitude, and
\* longitude_zarr_to_geojson on what it returned
ApplyLongitude ==
    /\ call.fn = "longitude"
    /\ ret = NoRet
    /\ ret' = [kind    |-> "returned",
               zarr    |-> longitude_geojson_to_zarr(call.lon),
               geojson |-> longitude_zarr_to_geojson(
                               longitude_geojson_to_zarr(call.lon))]
    /\ UNCHANGED <<call, completed, engine_vars, app_vars, warn_vars>>

\* SUPPORTED_PARAMETERS["10WD"].calculate on one (u, v)
ApplyWindDirection ==
    /\ call.fn = "calc_wind_direction"
    /\ ret = NoRet
    /\ ret' = [kind  |-> "returned",
               value |-> calc_wind_direction(FromInt(call.u),
                                             FromInt(call.v))]
    /\ UNCHANGED <<call, completed, engine_vars, app_vars, warn_vars>>

\* DynamoDBForecastSource(...).get_latest_zarr_path()
ApplyGetLatestZarrPath ==
    /\ call.fn = "get_latest_zarr_path"
    /\ ret = NoRet
    /\ ret' = get_latest_zarr_path(call)
    /\ UNCHANGED <<call, completed, engine_vars, app_vars, warn_vars>>

\* lines 58, 94-102 and 213 for one query point: normalise the longitude,
\* match each axis, report the matched longitude the GeoJSON way
ApplyResolve ==
    /\ call.fn = "resolve"
    /\ ret = NoRet
    /\ LET matched ==
             sel_nearest(
               2 * longitude_geojson_to_zarr(call.lon) + call.lon_half,
               2 * call.lat + call.lat_half)
       IN  ret' = [kind     |-> "returned",
                   lon      |-> matched.lon,
                   lat      |-> matched.lat,
                   reported |-> <<longitude_zarr_to_geojson(matched.lon),
                                  matched.lat>>]
    /\ UNCHANGED <<call, completed, engine_vars, app_vars, warn_vars>>

\* check_warning_condition on a warning at (0, 0) and a forecast that holds
\* one feature, at that place
ApplyCheckWarningCondition ==
    /\ call.fn = "check_warning_condition"
    /\ ret = NoRet
    /\ LET warning ==
             [WarningItem(1, [parameter |-> "VAR_2T", lon |-> 0, lat |-> 0],
                          6, <<TRUE, TRUE, TRUE>>)
                EXCEPT !.condition = call.condition, !.value = call.value]
           forcast_data ==
             [parameters  |-> {"VAR_2T"},
              coordinates |-> <<<<0, 0>>>>,
              features    |-> <<[lon |-> 0, lat |-> 0,
                                 properties |->
                                    [p \in {"VAR_2T"} |-> call.forecast]]>>]
       IN  ret' = check_warning_condition(warning, forcast_data)
    /\ UNCHANGED <<call, completed, engine_vars, app_vars, warn_vars>>

NextCalc ==
    \/ ApplyConvertUnits
    \/ ApplyLongitude
    \/ ApplyWindDirection
    \/ ApplyGetLatestZarrPath
    \/ ApplyResolve
    \/ ApplyCheckWarningCondition

SpecCalc == InitCalc /\ [][NextCalc]_vars

----------------------------------------------------------------------------
(* Properties *)

Called == request # NoRequest

Unsupported == request.requested_params \ DOMAIN supported_params

\* the message the tests expect for a set of unsupported names
ExpectedDetail(names) ==
    CASE names = {"PACMAN"} -> "Parameters not supported: PACMAN"
      [] names = {"MARIO", "PACMAN"} ->
            "Parameters not supported: MARIO, PACMAN"
      [] names = {"10WS"} -> "Parameters not supported: 10WS"

\* C1: a request naming a parameter absent from the registry fails with
\* ParamNotSupportedError listing exactly the absent names in ascending
\* order, and the route answers 400 with the names joined by ", "
C1_UnsupportedListedSorted ==
    (Called /\ Unsupported # {}) =>
        /\ result.kind = "raised"
        /\ result.error = "ParamNotSupportedError"
        /\ Len(result.params) = Cardinality(Unsupported)
        /\ SeqRange(result.params) = Unsupported
        /\ \A i, j \in DOMAIN result.params :
              i < j => StrLess(result.params[i], result.params[j])
        /\ pc = "responded" =>
              /\ response.status = 400
              /\ response.detail = ExpectedDetail(Unsupported)
              /\ response.features = <<>>

C1_Witness ==
    /\ pc = "responded"
    /\ request.requested_params = {"PACMAN", "VAR_2T", "MARIO"}
    /\ result.params = <<"MARIO", "PACMAN">>
    /\ response.status = 400

\* C2: the parameter check is the first stage of every call, and when a
\* requested parameter is unsupported no other stage is started, whatever
\* else was requested
C2_CheckFirstNothingPartial ==
    /\ Called => (stages # <<>> /\ stages[1] = "check")
    /\ (Called /\ Unsupported # {}) =>
          /\ stages = <<"check">>
          /\ point_data = NoData
          /\ result.features = <<>>
          /\ pc \in {"raised", "responded"}

C2_Witness ==
    /\ pc = "responded"
    /\ Unsupported # {}
    /\ request.requested_params \cap DOMAIN supported_params # {}
    /\ stages = <<"check">>

\* the grid cell the tests expect for a query point, as reported
ExpectedCell(p) ==
    CASE p = <<110, 126>>   -> <<100, 125>>
      [] p = <<-17999, 1>>  -> <<18000, 0>>

\* the native timestamps inside the requested window
NativeInWindow(date_range) ==
    {t \in SeqRange(GridTime) : date_range[1] <= t /\ t <= date_range[2]}

\* the number of timestamps a request is answered with
ExpectedAxisLength(date_range, freq) ==
    LET H == Cardinality(NativeInWindow(date_range))
    IN  IF freq = "1H" \/ H = 0 THEN H ELSE 12 * (H - 1) + 1

Ascending(s) == \A i, j \in DOMAIN s : i < j => s[i] < s[j]

\* the query point feature number k belongs to, for T timestamps a point
PointOf(k, T) == ((k - 1) \div T) + 1

TimeOf(k, T) == ((k - 1) % T) + 1

\* C4: feature k has id k, the resolved coordinates of input point
\* floor((k-1)/T) and timestamp (k-1) mod T of the ascending time axis
C4_PointMajorOrder ==
    result.kind = "returned" =>
        LET F == result.features
            T == Len(point_data.time)
        IN  /\ Ascending(point_data.time)
            /\ \A k \in DOMAIN F :
                 /\ F[k].id = k
                 /\ PointOf(k, T) \in DOMAIN request.coords
                 /\ F[k].geometry.coordinates =
                      ExpectedCell(request.coords[PointOf(k, T)])
                 /\ F[k].properties["DATETIME"] =
                      FormatTime(point_data.time[TimeOf(k, T)])

C4_Witness ==
    /\ result.kind = "returned"
    /\ Len(request.coords) = 2
    /\ request.coords[1] # request.coords[2]
    /\ Len(point_data.time) >= 2
    /\ Len(result.features) = 2 * Len(point_data.time)

\* C5: the number of features returned is the number of query points
\* times the length of the (resampled) time axis, repeated points included
C5_FeatureCount ==
    result.kind = "returned" =>
        /\ Len(result.features) =
             Len(request.coords) * Len(point_data.time)
        /\ Len(point_data.time) =
             ExpectedAxisLength(request.date_range, request.freq)

C5_Witness ==
    /\ result.kind = "returned"
    /\ Len(request.coords) = 2
    /\ request.coords[1] = request.coords[2]
    /\ request.freq = "5min"
    /\ Len(point_data.time) > NativeHours
    /\ Len(result.features) = 2 * Len(point_data.time)

\* C6: a feature has the REQUEST_ID property exactly when its query point
\* came with a non-null identifier, and then it is that identifier
C6_RequestIdEchoed ==
    result.kind = "returned" =>
        LET F   == result.features
            T   == Len(point_data.time)
            ids == request.requested_feature_ids
        IN  \A k \in DOMAIN F :
              /\ "REQUEST_ID" \in DOMAIN F[k].properties <=>
                    (ids.given /\ ids.list[PointOf(k, T)] # NoneId)
              /\ "REQUEST_ID" \in DOMAIN F[k].properties =>
                    F[k].properties["REQUEST_ID"] = ids.list[PointOf(k, T)]

C6_Witness ==
    /\ result.kind = "returned"
    /\ Len(point_data.time) >= 2
    /\ request.requested_feature_ids.list = <<IntId(0), NoneId>>
    /\ "REQUEST_ID" \in DOMAIN result.features[1].properties
    /\ "REQUEST_ID" \notin
          DOMAIN result.features[Len(result.features)].properties

\* the raw variables a catalog parameter is computed from
ExpectedDependencies(k) ==
    IF k \in {"10WS", "10WD"} THEN {"VAR_10U", "VAR_10V"} ELSE {k}

\* C7: a catalog parameter is a key of the registry exactly when all its
\* data_keys are stored in the dataset
C7_RegistryIffDependencies ==
    pc # "new" =>
        /\ \A k \in DOMAIN SUPPORTED_PARAMETERS :
              k \in DOMAIN supported_params <=>
                  ExpectedDependencies(k) \subseteq dataset
        /\ \A k \in DOMAIN supported_params :
              supported_params[k] = SUPPORTED_PARAMETERS[k]
        /\ DOMAIN supported_params \subseteq DOMAIN SUPPORTED_PARAMETERS

C7_Witness ==
    /\ pc = "idle"
    /\ "VAR_10U" \in dataset
    /\ "VAR_10V" \notin dataset
    /\ "VAR_10U" \in DOMAIN supported_params
    /\ "10WS" \notin DOMAIN supported_params
    /\ "10WD" \notin DOMAIN supported_params

Overlaps(date_range) ==
    /\ date_range[1] <= date_range[2]
    /\ date_range[1] <= LastNative
    /\ date_range[2] >= GridTime[1]

\* the call got as far as _load_subset
SelectStarted == Len(stages) >= 2 /\ stages[2] = "select"

\* C8 as claimed: for every window overlapping the dataset's span, also one
\* starting between two native timestamps, _load_subset succeeds and its
\* time axis is the native timestamps inside the window
C8_Claim_SubsetOfAnyOverlappingWindow ==
    (SelectStarted /\ Overlaps(request.date_range)) =>
        /\ result.kind # "raised"
        /\ pc \in {"resample", "derive"} =>
              /\ SeqRange(point_data.time) =
                    NativeInWindow(request.date_range)
              /\ Ascending(point_data.time)

\* C9 as claimed: a window that does not intersect the dataset's span is
\* answered with zero features, at either frequency
C9_Claim_EmptyWindowNeverFails ==
    (SelectStarted /\ ~Overlaps(request.date_range)) =>
        /\ result.kind # "raised"
        /\ pc = "responded" =>
              (response.status = 200 /\ response.features = <<>>)

\* the value the tests expect a raw value to be displayed as
ExpectedDisplay(p, units, v) ==
    IF units = "SI" THEN v
    ELSE CASE p = "VAR_2T" -> RSub(v, Rat(27315, 100))
           [] p = "TP"     -> RMul(v, FromInt(1000))

\* C10: at the hourly frequency the resampling stage is not run: the time
\* axis is the native timestamps in the window and every raw parameter,
\* total precipitation too, is the stored value (in the display unit)
C10_HourlyIsNative ==
    (Called /\ request.freq = "1H") =>
        /\ \A i \in DOMAIN stages : stages[i] # "resample"
        /\ result.kind = "returned" =>
              LET F    == result.features
                  T    == Len(point_data.time)
                  axis == point_data.time
              IN  /\ SeqRange(axis) = NativeInWindow(request.date_range)
                  /\ Ascending(axis)
                  /\ \A k \in DOMAIN F :
                       \A p \in request.requested_params
                                  \cap {"VAR_2T", "TP"} :
                          F[k].properties[p] =
                            ExpectedDisplay(p, request.units,
                              RawValue(p, axis[TimeOf(k, T)],
                                longitude_geojson_to_zarr(
                                  F[k].geometry.coordinates[1]),
                                F[k].geometry.coordinates[2]))

C10_Witness ==
    /\ result.kind = "returned"
    /\ request.freq = "1H"
    /\ "TP" \in request.requested_params
    /\ Len(point_data.time) = NativeHours
    /\ stages = <<"check", "select", "derive", "convert", "render">>
    /\ result.features[2].properties["TP"] =
          ExpectedDisplay("TP", request.units, FromInt(24 + 3 + 1 +
              (IF request.coords[1] = <<110, 126>> THEN 17 ELSE 44)))

\* C12: convert_units returns its input unchanged when the native unit of
\* the parameter is the display unit of the system (always so for SI), and
\* otherwise VAR_2T = K - 273.15, SP and MSL = Pa / 100, TP = m * 1000
C12_ConvertUnits ==
    (call.fn = "convert_units" /\ ret.kind = "returned") =>
        LET native  == SUPPORTED_PARAMETERS[call.param].data_unit
            display == SUPPORTED_PARAMETERS[call.param].units[call.units]
        IN  /\ call.units = "SI" => native = display
            /\ native = display => ret.value = call.value
            /\ native # display =>
                  /\ call.param \in {"VAR_2T", "SP", "MSL", "TP"}
                  /\ call.param = "VAR_2T" =>
                        ret.value = RSub(call.value, Rat(27315, 100))
                  /\ call.param \in {"SP", "MSL"} =>
                        ret.value = RDiv(call.value, FromInt(100))
                  /\ call.param = "TP" =>
                        ret.value = RMul(call.value, FromInt(1000))
            /\ (call.units = "DEFAULT"
                   /\ call.param \in {"VAR_2T", "SP", "MSL", "TP"}) =>
                  native # display

C12_Witness ==
    /\ call.fn = "convert_units"
    /\ call.param = "SP"
    /\ call.units = "DEFAULT"
    /\ call.value = FromInt(101325)
    /\ ret.kind = "returned"
    /\ ret.value = Rat(4053, 4)

\* C13: a query point at longitude -179.99 whose nearest grid longitude is
\* 180.0 is reported at longitude 180.0, never -180.0, with the values of
\* the grid cell at longitude 180.0
C13_AntimeridianReportedAs180 ==
    result.kind = "returned" =>
        LET F == result.features
            T == Len(point_data.time)
        IN  \A k \in DOMAIN F :
              request.coords[PointOf(k, T)] = <<-17999, 1>> =>
                /\ F[k].geometry.coordinates = <<18000, 0>>
                /\ F[k].geometry.coordinates[1] # -18000
                /\ ("VAR_2T" \in request.requested_params
                      /\ point_data.time[TimeOf(k, T)] \in SeqRange(GridTime))
                    => F[k].properties["VAR_2T"] =
                         ExpectedDisplay("VAR_2T", request.units,
                           RawValue("VAR_2T", point_data.time[TimeOf(k, T)],
                                    18000, 0))

C13_Witness ==
    /\ result.kind = "returned"
    /\ request.coords = <<<<-17999, 1>>>>
    /\ request.units = "SI"
    /\ "VAR_2T" \in request.requested_params
    /\ Len(result.features) >= 2
    /\ result.features[1].geometry.coordinates = <<18000, 0>>
    /\ result.features[1].properties["VAR_2T"] = FromInt(290 + 44)

\* C14: for every longitude in (-180, 180] the conversion to the zarr
\* system lands in [0, 360) and the conversion back gives the longitude
\* again, 0 and 180 included; -180 is normalised to 180 and reported as 180
C14_LongitudeRoundTrip ==
    (call.fn = "longitude" /\ ret.kind = "returned") =>
        /\ (-18000 < call.lon /\ call.lon <= 18000) =>
              /\ ret.geojson = call.lon
              /\ 0 <= ret.zarr /\ ret.zarr < 36000
        /\ call.lon = -18000 => (ret.zarr = 18000 /\ ret.geojson = 18000)

C14_Witness ==
    /\ call.fn = "longitude"
    /\ call.lon = -1
    /\ ret.kind = "returned"
    /\ ret.zarr = 35999
    /\ ret.geojson = -1

\* atan2(y, x) in degrees on the compass directions, as mathematics has it
Atan2Degrees(y, x) ==
    CASE x > 0 /\ y = 0 -> 0
      [] x > 0 /\ y > 0 -> 45
      [] x = 0 /\ y > 0 -> 90
      [] x < 0 /\ y > 0 -> 135
      [] x < 0 /\ y = 0 -> 180
      [] x < 0 /\ y < 0 -> -135
      [] x = 0 /\ y < 0 -> -90
      [] x > 0 /\ y < 0 -> -45

WindApplied ==
    /\ call.fn = "calc_wind_direction"
    /\ ret.kind = "returned"
    /\ <<call.u, call.v>> # <<0, 0>>

\* C15 as claimed: for every wind vector but the calm one, 10WD is
\* (270 - atan2(v, u)) mod 360, a value in [0, 360)
C15_Claim_DirectionBelow360 ==
    WindApplied =>
        /\ ret.value = FromInt((270 - Atan2Degrees(call.v, call.u)) % 360)
        /\ 0 <= ret.value.num /\ ret.value.num < 360

\* C15 amended: for every wind vector but the calm one, 10WD is in (0, 360]:
\* it is 360 for a wind from due north (u = 0, v < 0) and
\* (270 - atan2(v, u)) mod 360 for every other vector, and it agrees with
\* 90 - atan2(-v, -u) up to a multiple of 360
C15_DirectionUpTo360 ==
    WindApplied =>
        /\ ret.value.den = 1
        /\ 0 < ret.value.num /\ ret.value.num <= 360
        /\ (call.u = 0 /\ call.v < 0) => ret.value = FromInt(360)
        /\ ~(call.u = 0 /\ call.v < 0) =>
              ret.value =
                FromInt((270 - Atan2Degrees(call.v, call.u)) % 360)
        /\ (ret.value.num
               - (90 - Atan2Degrees(-call.v, -call.u))) % 360 = 0

C15_Witness ==
    /\ call.fn = "calc_wind_direction"
    /\ call.u = 0
    /\ call.v = -MaxWind
    /\ ret.kind = "returned"
    /\ ret.value = FromInt(360)

\* the unit a catalog parameter is displayed in
ExpectedUnit(k, u) ==
    CASE k = "VAR_2T" -> IF u = "SI" THEN "K" ELSE "degC"
      [] k \in {"SP", "MSL"} -> IF u = "SI" THEN "Pa" ELSE "hPa"
      [] k = "TP" -> IF u = "SI" THEN "m" ELSE "mm"
      [] k = "TCWV" -> "kg m**-2"
      [] k = "10WD" -> "degree"
      [] k \in {"VAR_10U", "VAR_10V", "10WS"} -> "m s**-1"

\* what get_parameters is to return for a unit system
ExpectedParameters(u) ==
    [k \in DOMAIN supported_params |->
        [short_name |-> k,
         long_name  |-> SUPPORTED_PARAMETERS[k].long_name,
         units      |-> ExpectedUnit(k, u)]]

\* C16: get_parameters returns, for the unit system asked for, one entry
\* {short_name, long_name, units} for each key of the registry and no
\* other, with the display unit of that system; the mapping is the one
\* built at construction, the same on every call
C16_ParametersJson ==
    /\ pc # "new" =>
          \A u \in UnitSystem : params_json[u] = ExpectedParameters(u)
    /\ (call.fn = "get_parameters" /\ ret.kind = "returned") =>
          /\ DOMAIN ret.value = DOMAIN supported_params
          /\ ret.value = ExpectedParameters(call.units)
          /\ ret.value = params_json[call.units]

C16_Witness ==
    /\ call.fn = "get_parameters"
    /\ call.units = "SI"
    /\ ret.kind = "returned"
    /\ DOMAIN ret.value = {"VAR_10U", "VAR_2T", "TP"}
    /\ ret.value["TP"] = [short_name |-> "TP",
                          long_name |-> "total precipitation",
                          units |-> "m"]
    /\ ret.value["VAR_2T"].units = "K"

SourceApplied ==
    call.fn = "get_latest_zarr_path" /\ ret.kind # "none"

\* the path is not empty and its first five characters are s3://
ValidS3Path(path) ==
    /\ Len(path) >= 5
    /\ path[1] = "s" /\ path[2] = "3" /\ path[3] = ":"
    /\ path[4] = "/" /\ path[5] = "/"

\* C17 as claimed: get_latest_zarr_path returns only when the source yields
\* a non-empty path starting with s3://, and then that path unchanged; it
\* raises FileNotFoundError when the source has no item, ValueError when the
\* path does not start with s3://, and lets the exception of the database
\* client through
C17_Claim_ValueErrorUnlessS3Scheme ==
    SourceApplied =>
        /\ ret.kind = "returned" <=>
              (call.response = "item" /\ ValidS3Path(call.path))
        /\ ret.kind = "returned" =>
              (ret.value = call.path /\ ret.value # <<>>)
        /\ call.response = "no_item" =>
              (ret.kind = "raised" /\ ret.error = "FileNotFoundError")
        /\ (call.response = "item" /\ ~ValidS3Path(call.path)) =>
              (ret.kind = "raised" /\ ret.error = "ValueError")
        /\ call.response = "raises" =>
              (ret.kind = "raised" /\ ret.error = "Exception")

\* C17: get_latest_zarr_path returns only when the source yields a
\* non-empty path starting with s3://, and then that path unchanged; it
\* raises FileNotFoundError when there is no item or the path of the item
\* is empty, ValueError when a non-empty path does not start with s3://,
\* and lets the exception of the database client through
C17_LatestPathValidOrRaises ==
    SourceApplied =>
        /\ ret.kind = "returned" <=>
              (call.response = "item" /\ ValidS3Path(call.path))
        /\ ret.kind = "returned" =>
              (ret.value = call.path /\ ret.value # <<>>)
        /\ call.response = "no_item" =>
              (ret.kind = "raised" /\ ret.error = "FileNotFoundError")
        /\ (call.response = "item" /\ call.path = <<>>) =>
              (ret.kind = "raised" /\ ret.error = "FileNotFoundError")
        /\ (call.response = "item" /\ call.path # <<>>
               /\ ~ValidS3Path(call.path)) =>
              (ret.kind = "raised" /\ ret.error = "ValueError")
        /\ call.response = "raises" =>
              (ret.kind = "raised" /\ ret.error = "Exception")

C17_Witness ==
    /\ call.fn = "get_latest_zarr_path"
    /\ call.response = "item"
    /\ call.path = <<>>
    /\ ret.kind = "raised"
    /\ ret.error = "FileNotFoundError"

ServiceUnchanged ==
    /\ dataset' = dataset
    /\ pc # "new" => /\ supported_params' = supported_params
                     /\ params_json' = params_json

\* every answer is the one a DataService just built over the same dataset
\* gives
AnswersAsFresh ==
    /\ pc \in {"returned", "raised", "responded"} =>
          result = get_points_as_geojson(dataset, request)
    /\ waiting.pc \in {"returned", "raised", "responded"} =>
          waiting.result = get_points_as_geojson(dataset, waiting.request)
    /\ (call.fn = "get_parameters" /\ ret.kind = "returned") =>
          ret.value = [k \in DOMAIN gen_supported_params(dataset) |->
                         to_json(gen_supported_params(dataset)[k],
                                 call.units)]

\* C19: no step of get_points_as_geojson or get_parameters changes the
\* dataset, supported_params or params_json of the DataService, whatever
\* calls came before or run in between, two get_points_as_geojson calls
\* under way at once included, and every call is answered as a DataService
\* just built over the same dataset would answer it
C19_CallsLeaveServiceUnchanged ==
    /\ [][ServiceUnchanged]_vars
    /\ []AnswersAsFresh

C19_Witness ==
    /\ completed = MaxCalls
    /\ pc = "responded"
    /\ result.kind = "returned"
    /\ request.freq = "5min"
    /\ "10WS" \in request.requested_params
    /\ waiting.pc \in {"derive", "convert", "render"}
    /\ waiting.request.requested_params = {"VAR_2T", "TP"}
    /\ Len(stages) = 6
    /\ Len(waiting.stages) >= 2
    /\ ret.kind = "returned"
    /\ supported_params = gen_supported_params(dataset)

\* the resampling stage has run and has not raised
Resampled ==
    /\ \E i \in DOMAIN stages : stages[i] = "resample"
    /\ result.kind # "raised"

\* C20: at the 5-minute frequency, over a clipped native axis of H >= 1
\* hourly timestamps from tmin to tmax, the resampled axis is exactly
\* tmin + 5 min * k for k in 0..12*(H-1): it holds every native timestamp,
\* starts at tmin, ends at tmax and never leaves the native span
C20_ResampledAxis ==
    Resampled =>
        LET N    == NativeInWindow(request.date_range)
            H    == Cardinality(N)
            tmin == CHOOSE t \in N : \A o \in N : t <= o
            tmax == CHOOSE t \in N : \A o \in N : t >= o
            axis == point_data.time
        IN  /\ request.freq = "5min"
            /\ H >= 1
            /\ Len(axis) = 12 * (H - 1) + 1
            /\ \A i \in DOMAIN axis : axis[i] = tmin + 5 * (i - 1)
            /\ N \subseteq SeqRange(axis)
            /\ axis[1] = tmin
            /\ axis[Len(axis)] = tmax
            /\ \A i \in DOMAIN axis :
                  GridTime[1] <= axis[i] /\ axis[i] <= LastNative

C20_Witness ==
    /\ Resampled
    /\ pc = "responded"
    /\ request.date_range = <<0, LastNative + 60>>
    /\ Len(point_data.time) = 12 * (NativeHours - 1) + 1
    /\ point_data.time[1] = 0
    /\ point_data.time[2] = 5
    /\ point_data.time[Len(point_data.time)] = LastNative

\* the earliest native timestamp at or after t
NextNative(t) ==
    CHOOSE n \in SeqRange(GridTime) :
        n >= t /\ \A o \in SeqRange(GridTime) : o >= t => n <= o

\* C11: at the 5-minute frequency, total precipitation at every output
\* timestamp t, native or inserted, is the stored value of the earliest
\* native timestamp at or after t, divided by 12 (in the display unit)
C11_PrecipitationBackfilled ==
    (result.kind = "returned" /\ request.freq = "5min"
        /\ "TP" \in request.requested_params) =>
        LET F    == result.features
            T    == Len(point_data.time)
            axis == point_data.time
        IN  \A k \in DOMAIN F :
              F[k].properties["TP"] =
                ExpectedDisplay("TP", request.units,
                  RDiv(RawValue("TP", NextNative(axis[TimeOf(k, T)]),
                         longitude_geojson_to_zarr(
                           F[k].geometry.coordinates[1]),
                         F[k].geometry.coordinates[2]),
                       FromInt(12)))

C11_Witness ==
    /\ result.kind = "returned"
    /\ request.freq = "5min"
    /\ request.units = "SI"
    /\ request.coords[1] = <<110, 126>>
    /\ "TP" \in request.requested_params
    /\ Len(point_data.time) = 12 * (NativeHours - 1) + 1
    /\ result.features[1].properties["TP"] = Rat(24 + 17, 12)
    /\ result.features[2].properties["TP"] = Rat(24 + 3 + 1 + 17, 12)
    /\ result.features[13].properties["TP"] = Rat(24 + 3 + 1 + 17, 12)
    /\ result.features[14].properties["TP"] = Rat(24 + 12 + 2 + 17, 12)

PreviousNative(t) ==
    CHOOSE n \in SeqRange(GridTime) :
        n <= t /\ \A o \in SeqRange(GridTime) : o <= t => n >= o

\* v(t0) + (v(t1) - v(t0)) * (t - t0) / (t1 - t0) between the native
\* timestamps t0 <= t <= t1 that bracket t, and v(t) at a native timestamp
ExpectedLinear(key, t, lon, lat) ==
    LET t0 == PreviousNative(t)
        t1 == NextNative(t)
        v0 == RawValue(key, t0, lon, lat)
        v1 == RawValue(key, t1, lon, lat)
    IN  IF t0 = t1 THEN v0
        ELSE RAdd(v0, RDiv(RMul(RSub(v1, v0), FromInt(t - t0)),
                           FromInt(t1 - t0)))

\* C21: at the 5-minute frequency every raw variable but total
\* precipitation is filled by interp_linear: a native timestamp keeps its
\* stored value and an inserted one lies on the line between the two native
\* samples that bracket it (in the display unit)
C21_LinearBetweenNatives ==
    /\ \A k \in RawNames \ {"TP"} :
          SUPPORTED_PARAMETERS[k].interpolate_na = "interp_linear"
    /\ (result.kind = "returned" /\ request.freq = "5min"
          /\ "VAR_2T" \in request.requested_params) =>
          LET F    == result.features
              T    == Len(point_data.time)
              axis == point_data.time
          IN  \A k \in DOMAIN F :
                F[k].properties["VAR_2T"] =
                  ExpectedDisplay("VAR_2T", request.units,
                    ExpectedLinear("VAR_2T", axis[TimeOf(k, T)],
                      longitude_geojson_to_zarr(F[k].geometry.coordinates[1]),
                      F[k].geometry.coordinates[2]))

C21_Witness ==
    /\ result.kind = "returned"
    /\ request.freq = "5min"
    /\ request.units = "SI"
    /\ request.coords[1] = <<110, 126>>
    /\ "VAR_2T" \in request.requested_params
    /\ Len(point_data.time) = 12 * (NativeHours - 1) + 1
    /\ result.features[1].properties["VAR_2T"] = FromInt(290 + 17)
    /\ result.features[7].properties["VAR_2T"] = FromInt(290 + 2 + 17)
    /\ result.features[13].properties["VAR_2T"] = FromInt(290 + 4 + 17)
    /\ result.features[14].properties["VAR_2T"] = Rat(3732 + 10, 12)

\* the stages of a request in the order the claim gives, after the
\* parameter check
ExpectedStages(freq) ==
    IF freq = "1H"
    THEN <<"check", "select", "derive", "convert", "render">>
    ELSE <<"check", "select", "resample", "derive", "convert", "render">>

IsPrefix(s, t) == Len(s) <= Len(t) /\ s = SubSeq(t, 1, Len(s))

\* C22: the stages of a request run in the order select, resample (only
\* when the frequency is not hourly), derive, convert, render, each at most
\* once; so the wind speed at an inserted 5-minute timestamp is computed
\* from the gap-filled VAR_10U and VAR_10V of that timestamp
C22_StagesInOrder ==
    Called =>
        /\ IsPrefix(stages, ExpectedStages(request.freq))
        /\ result.kind = "returned" =>
              stages = ExpectedStages(request.freq)
        /\ (result.kind = "returned" /\ "10WS" \in request.requested_params)
              =>
              LET F    == result.features
                  T    == Len(point_data.time)
                  axis == point_data.time
              IN  \A k \in DOMAIN F :
                    LET lon == longitude_geojson_to_zarr(
                                   F[k].geometry.coordinates[1])
                        lat == F[k].geometry.coordinates[2]
                        u   == ExpectedLinear("VAR_10U", axis[TimeOf(k, T)],
                                              lon, lat)
                        v   == ExpectedLinear("VAR_10V", axis[TimeOf(k, T)],
                                              lon, lat)
                    IN  F[k].properties["10WS"] =
                          [sqrt_of |-> RAdd(RMul(u, u), RMul(v, v))]

C22_Witness ==
    /\ result.kind = "returned"
    /\ request.freq = "5min"
    /\ request.coords[1] = <<110, 126>>
    /\ request.requested_params = {"10WS"}
    /\ stages = <<"check", "select", "resample", "derive", "convert",
                  "render">>
    /\ Len(point_data.time) = 12 * (NativeHours - 1) + 1
    /\ result.features[7].properties["10WS"] =
          [sqrt_of |-> FromInt(22 * 22 + 23 * 23)]

Resolved == call.fn = "resolve" /\ ret.kind = "returned"

\* the normalised query longitude and the query latitude, in two-hundredths
\* of a degree
QueryLon2 ==
    2 * (IF call.lon < 0 THEN call.lon + 36000 ELSE call.lon) + call.lon_half

QueryLat2 == 2 * call.lat + call.lat_half

\* C23: longitude is matched by plain distance on the normalised [0, 360)
\* axis, never across 0/360: a query normalised to 359.99 resolves to the
\* largest grid longitude 359.75 and is reported as -0.25, not 0; latitude
\* is matched on its own, whatever the longitude
C23_NoWrapAcrossMeridian ==
    Resolved =>
        /\ ret.lon \in GridLon
        /\ \A g \in GridLon :
              Abs(2 * ret.lon - QueryLon2) <= Abs(2 * g - QueryLon2)
        /\ QueryLon2 >= 2 * 35975 =>
              (ret.lon = 35975 /\ ret.reported[1] = -25)
        /\ ret.lat \in GridLat
        /\ \A g \in GridLat :
              Abs(2 * ret.lat - QueryLat2) <= Abs(2 * g - QueryLat2)
        /\ ret.reported[2] = ret.lat

C23_Witness ==
    /\ Resolved
    /\ call.lon = -1 /\ call.lon_half = 0
    /\ call.lat = 1 /\ call.lat_half = 0
    /\ ret.lon = 35975
    /\ ret.reported = <<-25, 0>>

\* the query lies midway between the grid coordinates lo < hi of an axis
\* that are next to each other
Midway(grid, q2, lo, hi) ==
    /\ lo \in grid /\ hi \in grid /\ lo < hi
    /\ \A g \in grid : ~(lo < g /\ g < hi)
    /\ q2 = lo + hi

\* C24 as claimed: a query coordinate midway between two adjacent grid
\* coordinates resolves to the smaller of the two, on either axis
C24_Claim_TiesToSmaller ==
    Resolved =>
        /\ \A lo, hi \in GridLon :
              Midway(GridLon, QueryLon2, lo, hi) => ret.lon = lo
        /\ \A lo, hi \in GridLat :
              Midway(GridLat, QueryLat2, lo, hi) => ret.lat = lo

\* C24 amended: a query coordinate midway between two adjacent grid
\* coordinates resolves to the larger of the two, on either axis
C24_TiesToLarger ==
    Resolved =>
        /\ \A lo, hi \in GridLon :
              Midway(GridLon, QueryLon2, lo, hi) => ret.lon = hi
        /\ \A lo, hi \in GridLat :
              Midway(GridLat, QueryLat2, lo, hi) => ret.lat = hi

C24_Witness ==
    /\ Resolved
    /\ call.lon = 12 /\ call.lon_half = 1
    /\ call.lat = -13 /\ call.lat_half = 1
    /\ ret.lon = 25
    /\ ret.lat = 0

\* thread t leaves the comparison of line 171 in this step
Compares(t) == threads[t].pc = "compare" /\ threads'[t].pc # "compare"

\* the step of thread t out of the comparison writes nothing to app.state
\* when the paths are equal, and goes on to load_index when they differ
StepAlreadyLoadedChangesNothing ==
    \A t \in 1..NumThreads :
        /\ Compares(t) =>
              IF threads[t].latest_zarr = app_state.predictions_filename
              THEN app_state' = app_state /\ threads'[t].pc = "make_service"
              ELSE threads'[t].pc = "set_filename"
        /\ (threads[t].pc # "set_filename"
                /\ threads'[t].pc = "set_filename") =>
              threads[t].latest_zarr # app_state.predictions_filename
        /\ (threads[t].pc # "load_index" /\ threads'[t].pc = "load_index") =>
              threads[t].pc = "set_filename"

\* C25: when the path the forecast source returned equals the loaded
\* predictions_filename, load_latest_dataset leaves predictions_filename,
\* predictions_dataset, FROM_DATE and TO_DATE as they are and opens nothing;
\* a dataset is opened only for a path different from the loaded one
C25_AlreadyLoadedChangesNothing == [][StepAlreadyLoadedChangesNothing]_vars

C25_Witness ==
    \E t \in 1..NumThreads :
        /\ threads[t].pc = "make_service"
        /\ threads[t].current_timestamp = 1
        /\ threads[t].latest_zarr = 1
        /\ threads[t].seen.filename = 1
        /\ app_state = AppLoaded

\* no call of load_latest_dataset is under way
NoLoadUnderWay ==
    \A t \in 1..NumThreads : threads[t].pc \in {"idle", "done", "failed"}

SameNotification(m, n) == m.warning = n.warning /\ m.sent_key = n.sent_key

\* C27 as claimed: over check_warnings runs made one after the other, once
\* a notification of a warning at a lead time was delivered (SMS or email
\* succeeded) no later run sends that warning at that lead time again; a
\* warning whose before_h_sent is stored as "False" is not passed over by a
\* later run
C27_Claim_DeliveredOnce ==
    /\ \A m, n \in outbox :
          (m.sent /\ n.sent /\ SameNotification(m, n)) => ~(m.run < n.run)
    /\ \A r \in 1..MaxRuns :
          (/\ AtWarning(r)
           /\ Warning(r)[BeforeKey(r)] = "True"
           /\ Warning(r)[SentKey(r)] = "False")
              => ~PassedOver(Warning(r), BeforeKey(r))

\* this step of run r deals with the warning at the head of its group
DealsWithWarning(r) == AtWarning(r) /\ checker'[r] # checker[r]

\* this step of run r makes the first call of notify_warning for the
\* warning: email_body is written, or the update raises
Notifies(r) ==
    \/ /\ checker'[r].pc = "sms"
       /\ warnings_table'[Warning(r).id].email_body # <<>>
    \/ /\ checker'[r].pc = "raised"
       /\ AtEmailBody(r)

\* the step notifies the warning exactly when it is wanted and not yet sent
StepNotifiedIffWantedAndNotSent ==
    \A r \in 1..MaxRuns :
        DealsWithWarning(r) =>
            (Notifies(r) <=>
                (/\ Warning(r)[BeforeKey(r)] = "True"
                 /\ Warning(r)[SentKey(r)] # "True"))

\* C28 as claimed: a warning due at lead time h is notified if and only if
\* its before_h is "True" and its before_h_sent is not "True", whatever the
\* result of its condition
C28_Claim_NotifiedIffWantedAndNotSent ==
    [][StepNotifiedIffWantedAndNotSent]_vars

\* the condition of the warning at the head of the group is evaluated next
Evaluating(r) == AtWarning(r) /\ ~PassedOver(Warning(r), BeforeKey(r))

\* C29 as claimed: within a run, a warning is evaluated against forecast
\* data requested for coordinates that contain its own and for parameters
\* that contain its own, in each of the three lead-time groups
C29_Claim_EvaluatedAgainstOwnRequest ==
    \A r \in 1..MaxRuns :
        Evaluating(r) =>
            /\ \E i \in 1..Len(checker[r].data.coordinates) :
                  checker[r].data.coordinates[i]
                      = <<Warning(r).lon, Warning(r).lat>>
            /\ Warning(r).parameter \in checker[r].data.parameters

ConditionChecked ==
    call.fn = "check_warning_condition" /\ ret.kind = "returned"

\* C30 as claimed: the result of check_warning_condition is true exactly
\* when the forecast value stands in the named relation to the threshold:
\* GREATER_THAN iff forecast > threshold, GREATER_THAN_E iff forecast >=
\* threshold, LESS_THAN iff forecast < threshold, LESS_THAN_E iff forecast
\* <= threshold
C30_Claim_ResultIsNamedRelation ==
    ConditionChecked =>
        /\ ret.value = call.forecast
        /\ ret.result =
              CASE call.condition = "GREATER_THAN" ->
                       call.forecast > call.value
                [] call.condition = "GREATER_THAN_E" ->
                       call.forecast >= call.value
                [] call.condition = "LESS_THAN" ->
                       call.forecast < call.value
                [] call.condition = "LESS_THAN_E" ->
                       call.forecast <= call.value

====
